---- MODULE Spec2Model ----
(***************************************************************************)
(* A model of the ecoquest_api cloud function: the per-IP rate limiter of  *)
(* main.py, the upstream rate limiter and the retrying Groq client of      *)
(* floresta/mar.py, and the scenario handlers of floresta/*.py.            *)
(*                                                                         *)
(* Time is a global clock `now` counted in ticks; TicksPerSecond ticks     *)
(* make one second, so that timedelta.total_seconds() is a fraction and    *)
(* int() truncates.  Every datetime.now() of the code reads `now`; the     *)
(* clock may advance between any two steps.                                *)
(***************************************************************************)
EXTENDS Integers, Sequences, FiniteSets, TLC

VARIABLES
    now,                \* the wall clock, in ticks
    ip_requests,        \* main.py RateLimiter.ip_requests: ip -> deque of timestamps
    last_request_time,  \* main.py RateLimiter.last_request_time: ip -> timestamp
    last_cleanup,       \* main.py RateLimiter.last_cleanup
    pc,                 \* position of each request thread in decorated_function
    req_ip,             \* the client ip of the request a thread serves
    resp,               \* the response a thread returned last
    admitted,           \* history: ip -> the timestamps register_request stored
                        \* that are at most time_window old
    requests,           \* mar.py RateLimiter.requests: deque of timestamps
    lim,                \* position inside wait_if_needed: "idle" or "woke"
    cpc,                \* position of the caller inside _call_groq
    scenario,           \* the scenario whose game master makes the call
    attempt,            \* the loop variable of _call_groq
    outcomes,           \* history: what each HTTP attempt of the call ended in
    sleeps,             \* history: the time.sleep(s) calls of _call_groq, in seconds
    waits,              \* history: wait_if_needed calls of the call
    lim_sleeps,         \* history: time.sleep calls of wait_if_needed in the call
    result,             \* what _call_groq returned or raised
    calls,              \* history: number of calls made so far
    http_sent,          \* history: the times of the HTTP requests sent that
                        \* are at most mar_time_window old
    game,               \* the scenario of the game master that serves the turn
    history,            \* the history argument of compress_history
    compressed,         \* what compress_history returned
    response_text,      \* the response_text argument of _clean_json_response
    game_response,      \* what _clean_json_response returned
    game_state,         \* the caller's game_state dict, passed to continue_game
    turn,               \* history: the last turn, its inputs and what it returned
    turns               \* history: number of continue turns of the session

inbound_vars == <<ip_requests, last_request_time, last_cleanup, pc, req_ip,
                  resp, admitted>>

upstream_vars == <<requests, lim, cpc, scenario, attempt, outcomes, sleeps, waits,
                   lim_sleeps, result, calls, http_sent>>

session_vars == <<game, history, compressed, response_text, game_response,
                  game_state, turn, turns>>

vars == <<now, inbound_vars, upstream_vars, session_vars>>

(***************************************************************************)
(* Bounds of the model.  The limiter's parameters are scaled down from the *)
(* values of the source (given with each) so that the state space is       *)
(* finite; the scaling keeps window = max * cooldown, as 60 = 20 * 3.      *)
(***************************************************************************)
MaxTime == 10                   \* the clock stops here

TicksPerSecond == 2             \* resolution of the clock

max_requests_per_minute == 3    \* main.py:41, 20 in the source

time_window_seconds == 3        \* main.py:42, 60 in the source

cooldown_seconds == 1           \* main.py:46, 3 in the source

cleanup_interval_seconds == 3   \* main.py:122, timedelta(minutes=5) in the source

inactive_threshold_seconds == 4 \* main.py:128, timedelta(hours=1) in the source

MaxCalls == 4                   \* calls of wait_if_needed or _call_groq in a run

MaxLen == 8                     \* messages of a history given to compress_history

MaxTextLen == 4                 \* tokens of a text given to _clean_json_response

MaxTurns == 2                   \* continue turns of one session

MaxOlder == 4                   \* messages before the last max_history * 2 of a long history

MaxPairs == 5                   \* continue turns already played in a stored session

mar_max_requests == 3           \* mar.py:160, max_requests=25 in the source

mar_time_window_seconds == 2    \* mar.py:160, time_window=60 in the source

max_retries == 3                \* mar.py:163

timeout_sleep == 2              \* mar.py:220, time.sleep(2)

IPs == {"ip1", "ip2"}

Threads == {"t1", "t2"}

NoIp == "none"

\* timedelta(seconds=s), in ticks
timedelta(s) == s * TicksPerSecond

time_window == timedelta(time_window_seconds)

mar_time_window == timedelta(mar_time_window_seconds)

\* a conversion to whole seconds that rounds up
int_seconds_ceiling(n) ==
    IF n >= 0 THEN (n + TicksPerSecond - 1) \div TicksPerSecond
    ELSE -((-n) \div TicksPerSecond)

\* int(x) of Python for the fraction n / d, d > 0: truncation toward zero
int_seconds(n) ==
    IF n >= 0 THEN n \div TicksPerSecond ELSE -((-n) \div TicksPerSecond)

Last(q) == q[Len(q)]

NoResp == [code |-> "NONE", status |-> 0, retry_after |-> 0, at |-> 0]

(***************************************************************************)
(* main.py RateLimiter                                                     *)
(***************************************************************************)

\* check_cooldown with the comparison <= in place of <: a request made exactly
\* cooldown_seconds after the last one is refused
check_cooldown_inclusive(ip, n) ==
    IF /\ ip \in DOMAIN last_request_time
       /\ n - last_request_time[ip] <= timedelta(cooldown_seconds)
    THEN [ok |-> FALSE,
          remaining |-> timedelta(cooldown_seconds) - (n - last_request_time[ip])]
    ELSE [ok |-> TRUE, remaining |-> 0]

\* check_cooldown(ip) evaluated at clock reading n: (permitido, tempo_restante),
\* tempo_restante in ticks
check_cooldown(ip, n) ==
    IF /\ ip \in DOMAIN last_request_time
       /\ n - last_request_time[ip] < timedelta(cooldown_seconds)
    THEN [ok |-> FALSE,
          remaining |-> timedelta(cooldown_seconds) - (n - last_request_time[ip])]
    ELSE [ok |-> TRUE, remaining |-> 0]

\* while ip_queue and (now - ip_queue[0]) > self.time_window: ip_queue.popleft()
RECURSIVE purge(_, _, _)
purge(q, n, window) ==
    IF q # <<>> /\ (n - Head(q)) > window THEN purge(Tail(q), n, window) ELSE q

\* self.ip_requests[ip] of a defaultdict(deque): a missing key reads as empty
queue_of(ip) == IF ip \in DOMAIN ip_requests THEN ip_requests[ip] ELSE <<>>

\* check_rate_limit with the comparison > in place of >=: one request too many
check_rate_limit_off_by_one(q, n) ==
    IF Len(q) > max_requests_per_minute
    THEN [allowed |-> FALSE, current_count |-> Len(q),
          retry_after |-> int_seconds(Head(q) + time_window - n) + 1,
          remaining |-> 0]
    ELSE [allowed |-> TRUE, current_count |-> Len(q) + 1,
          retry_after |-> 0,
          remaining |-> max_requests_per_minute - (Len(q) + 1)]

\* check_rate_limit whose retry_after is the remaining time in whole seconds,
\* with no second added
check_rate_limit_no_margin(q, n) ==
    IF Len(q) >= max_requests_per_minute
    THEN [allowed |-> FALSE, current_count |-> Len(q),
          retry_after |-> int_seconds(Head(q) + time_window - n),
          remaining |-> 0]
    ELSE [allowed |-> TRUE, current_count |-> Len(q) + 1,
          retry_after |-> 0,
          remaining |-> max_requests_per_minute - (Len(q) + 1)]

\* check_rate_limit(ip) evaluated at clock reading n, on the purged queue q
check_rate_limit(q, n) ==
    IF Len(q) >= max_requests_per_minute
    THEN [allowed |-> FALSE, current_count |-> Len(q),
          retry_after |-> int_seconds(Head(q) + time_window - n) + 1,
          remaining |-> 0]
    ELSE [allowed |-> TRUE, current_count |-> Len(q) + 1,
          retry_after |-> 0,
          remaining |-> max_requests_per_minute - (Len(q) + 1)]

\* a _cleanup that measures inactivity from the oldest timestamp of a window
ips_to_remove_by_oldest(n) ==
    {ip \in DOMAIN ip_requests :
        \/ ip_requests[ip] = <<>>
        \/ (n - Head(ip_requests[ip])) > timedelta(inactive_threshold_seconds)}

\* a _cleanup with no inactivity threshold: every ip not seen at n is removed
ips_to_remove_eager(n) ==
    {ip \in DOMAIN ip_requests :
        \/ ip_requests[ip] = <<>>
        \/ (n - Last(ip_requests[ip])) > 0}

\* the ips _cleanup removes from ip_requests at clock reading n
ips_to_remove(n) ==
    {ip \in DOMAIN ip_requests :
        \/ ip_requests[ip] = <<>>
        \/ (n - Last(ip_requests[ip])) > timedelta(inactive_threshold_seconds)}

Restrict(f, S) == [x \in S |-> f[x]]

Put(f, k, v) == [x \in (DOMAIN f) \cup {k} |-> IF x = k THEN v ELSE f[x]]

Empty == [x \in {} |-> 0]

(***************************************************************************)
(* The clock and the histories                                             *)
(***************************************************************************)

\* the timestamps of h that lie in the closed window [n - mar_time_window, n]
in_mar_window(h, n) == SelectSeq(h, LAMBDA e : n - e <= mar_time_window)

\* the registered timestamps of h that lie in the closed window [n - time_window, n]
in_window(h, n) == SelectSeq(h, LAMBDA e : n - e <= time_window)

\* the histories that forget what left their window, when the clock moves to n
Forget(n) ==
    /\ admitted' = [ip \in IPs |-> in_window(admitted[ip], n)]
    /\ http_sent' = in_mar_window(http_sent, n)

(***************************************************************************)
(* main.py apply_rate_limit.decorated_function, one step per call it makes *)
(***************************************************************************)

\* a request of client ip reaches a worker thread
Arrive(t, ip) ==
    /\ pc[t] = "idle"
    /\ pc' = [pc EXCEPT ![t] = "check_cooldown"]
    /\ req_ip' = [req_ip EXCEPT ![t] = ip]
    /\ UNCHANGED <<now, ip_requests, last_request_time, last_cleanup, resp,
                   admitted>>
    /\ UNCHANGED <<upstream_vars, session_vars>>

\* a cooldown check that restarts the cooldown of a request it denies
CheckCooldown_restarting(t) ==
    /\ pc[t] = "check_cooldown"
    /\ LET c == check_cooldown(req_ip[t], now) IN
       IF ~c.ok
       THEN /\ resp' = [resp EXCEPT ![t] =
                  [code |-> "COOLDOWN_ACTIVE", status |-> 429,
                   retry_after |-> int_seconds(c.remaining) + 1, at |-> now]]
            /\ pc' = [pc EXCEPT ![t] = "respond"]
            /\ last_request_time' = Put(last_request_time, req_ip[t], now)
       ELSE /\ resp' = [resp EXCEPT ![t] = [NoResp EXCEPT !.at = now]]
            /\ pc' = [pc EXCEPT ![t] = "check_rate_limit"]
            /\ last_request_time' = last_request_time
    /\ UNCHANGED <<now, ip_requests, last_cleanup, req_ip, admitted>>
    /\ UNCHANGED <<upstream_vars, session_vars>>

\* 1: cooldown_ok, time_remaining = rate_limiter.check_cooldown(ip)
CheckCooldown(t) ==
    /\ pc[t] = "check_cooldown"
    /\ LET c == check_cooldown(req_ip[t], now) IN
       IF ~c.ok
       THEN /\ resp' = [resp EXCEPT ![t] =
                  [code |-> "COOLDOWN_ACTIVE", status |-> 429,
                   retry_after |-> int_seconds(c.remaining) + 1, at |-> now]]
            /\ pc' = [pc EXCEPT ![t] = "respond"]
       ELSE /\ resp' = [resp EXCEPT ![t] = [NoResp EXCEPT !.at = now]]
            /\ pc' = [pc EXCEPT ![t] = "check_rate_limit"]
    /\ UNCHANGED <<now, ip_requests, last_request_time, last_cleanup, req_ip,
                   admitted>>
    /\ UNCHANGED <<upstream_vars, session_vars>>

\* 2: rate_ok, rate_info = rate_limiter.check_rate_limit(ip)
CheckRateLimit(t) ==
    /\ pc[t] = "check_rate_limit"
    /\ LET ip == req_ip[t]
           q  == purge(queue_of(ip), now, time_window)
           r  == check_rate_limit(q, now)
       IN /\ ip_requests' = Put(ip_requests, ip, q)
          /\ IF ~r.allowed
             THEN /\ resp' = [resp EXCEPT ![t] =
                        [code |-> "RATE_LIMIT_EXCEEDED", status |-> 429,
                         retry_after |-> r.retry_after, at |-> now]]
                  /\ pc' = [pc EXCEPT ![t] = "respond"]
             ELSE /\ resp' = [resp EXCEPT ![t] = [NoResp EXCEPT !.at = now]]
                  /\ pc' = [pc EXCEPT ![t] = "register_request"]
    /\ UNCHANGED <<now, last_request_time, last_cleanup, req_ip, admitted>>
    /\ UNCHANGED <<upstream_vars, session_vars>>

\* a decorator that calls the route first and leaves the registration for later
RegisterRequest_deferred(t) ==
    /\ pc[t] = "register_request"
    /\ pc' = [pc EXCEPT ![t] = "handler"]
    /\ UNCHANGED <<now, ip_requests, last_request_time, last_cleanup, req_ip, resp,
                   admitted>>
    /\ UNCHANGED <<upstream_vars, session_vars>>

\* 3: rate_limiter.register_request(ip), up to the call of _cleanup
RegisterRequest(t) ==
    /\ pc[t] = "register_request"
    /\ LET ip == req_ip[t] IN
       /\ ip_requests' = Put(ip_requests, ip, Append(queue_of(ip), now))
       /\ last_request_time' = Put(last_request_time, ip, now)
       /\ admitted' = [admitted EXCEPT ![ip] = Append(@, now)]
    /\ pc' = [pc EXCEPT ![t] =
                IF (now - last_cleanup) > timedelta(cleanup_interval_seconds)
                THEN "cleanup" ELSE "handler"]
    /\ UNCHANGED <<now, last_cleanup, req_ip, resp>>
    /\ UNCHANGED <<upstream_vars, session_vars>>

\* RateLimiter._cleanup, called at the end of register_request
Cleanup(t) ==
    /\ pc[t] = "cleanup"
    /\ LET keep == (DOMAIN ip_requests) \ ips_to_remove(now) IN
       /\ ip_requests' = Restrict(ip_requests, keep)
       /\ last_request_time' =
              Restrict(last_request_time, (DOMAIN last_request_time) \cap keep)
    /\ last_cleanup' = now
    /\ pc' = [pc EXCEPT ![t] = "handler"]
    /\ UNCHANGED <<now, req_ip, resp, admitted>>
    /\ UNCHANGED <<upstream_vars, session_vars>>

\* 4: response = f(*args, **kwargs): the wrapped route runs and answers
Handler(t) ==
    /\ pc[t] = "handler"
    /\ resp' = [resp EXCEPT ![t] = [@ EXCEPT !.code = "HANDLED", !.status = 200]]
    /\ pc' = [pc EXCEPT ![t] = "respond"]
    /\ UNCHANGED <<now, ip_requests, last_request_time, last_cleanup, req_ip,
                   admitted>>
    /\ UNCHANGED <<upstream_vars, session_vars>>

\* return response_obj: the thread hands the response over and is free again
Return(t) ==
    /\ pc[t] = "respond"
    /\ pc' = [pc EXCEPT ![t] = "idle"]
    /\ req_ip' = [req_ip EXCEPT ![t] = NoIp]
    /\ resp' = [resp EXCEPT ![t] = NoResp]
    /\ UNCHANGED <<now, ip_requests, last_request_time, last_cleanup, admitted>>
    /\ UNCHANGED <<upstream_vars, session_vars>>

\* the clock advances by one tick; the history forgets what left the window
Tick ==
    /\ now < MaxTime
    /\ now' = now + 1
    /\ Forget(now + 1)
    /\ UNCHANGED <<ip_requests, last_request_time, last_cleanup, pc, req_ip, resp>>
    /\ UNCHANGED session_vars
    /\ UNCHANGED <<requests, lim, cpc, scenario, attempt, outcomes, sleeps, waits,
                   lim_sleeps, result, calls>>

(***************************************************************************)
(* floresta/mar.py RateLimiter                                             *)
(***************************************************************************)

\* time.sleep's margin of wait_if_needed, 0.5 s, in ticks
safety_margin == TicksPerSecond \div 2

\* wait_seconds = (self.requests[0] + self.time_window - now), in ticks
wait_seconds(q, n) == Head(q) + mar_time_window - n

\* the two nested conditions under which wait_if_needed sleeps
must_wait(q, n) == Len(q) >= mar_max_requests /\ wait_seconds(q, n) > 0

\* a wait_if_needed that sleeps wait_seconds without the margin
WaitBegin_no_margin ==
    LET q == purge(requests, now, mar_time_window) IN
    IF must_wait(q, now)
    THEN /\ requests' = q
         /\ now' = now + wait_seconds(q, now)
         /\ lim' = "woke"
         /\ lim_sleeps' = lim_sleeps + 1
    ELSE /\ requests' = Append(q, now)
         /\ now' = now
         /\ lim' = "idle"
         /\ lim_sleeps' = lim_sleeps

\* wait_if_needed up to its time.sleep, or to its end when it does not sleep
WaitBegin ==
    LET q == purge(requests, now, mar_time_window) IN
    IF must_wait(q, now)
    THEN /\ requests' = q
         /\ now' = now + wait_seconds(q, now) + safety_margin
         /\ lim' = "woke"
         /\ lim_sleeps' = lim_sleeps + 1
    ELSE /\ requests' = Append(q, now)
         /\ now' = now
         /\ lim' = "idle"
         /\ lim_sleeps' = lim_sleeps

\* a wait_if_needed that, once it has slept, returns without registering
WaitEnd_unregistered ==
    /\ requests' = purge(requests, now, mar_time_window)
    /\ lim' = "idle"

\* wait_if_needed after its time.sleep: purge again, register
WaitEnd ==
    /\ requests' = Append(purge(requests, now, mar_time_window), now)
    /\ lim' = "idle"

\* a caller calls wait_if_needed of one limiter
WaitIfNeeded ==
    /\ lim = "idle"
    /\ calls < MaxCalls
    /\ calls' = calls + 1
    /\ WaitBegin
    /\ Forget(now')
    /\ UNCHANGED <<cpc, scenario, attempt, outcomes, sleeps, waits, result>>
    /\ UNCHANGED <<ip_requests, last_request_time, last_cleanup, pc, req_ip, resp>>
    /\ UNCHANGED session_vars

\* the caller's time.sleep inside wait_if_needed is over
WaitWake ==
    /\ lim = "woke"
    /\ WaitEnd
    /\ UNCHANGED <<now, cpc, scenario, attempt, outcomes, sleeps, waits, lim_sleeps,
                   result, calls, http_sent>>
    /\ UNCHANGED <<inbound_vars, session_vars>>

(***************************************************************************)
(* floresta/mar.py MarGameMaster._call_groq                                *)
(***************************************************************************)
Texts == {"reply1", "reply2"}

Ok(text) == [kind |-> "ok", status |-> 200, text |-> text]

HttpError(status) == [kind |-> "http", status |-> status, text |-> ""]

Timeout == [kind |-> "timeout", status |-> 0, text |-> ""]

RequestException == [kind |-> "network", status |-> 0, text |-> ""]

\* what one requests.post, raise_for_status and response.json() can end in
Outcomes ==
    {Ok(x) : x \in Texts} \cup {HttpError(429), HttpError(401), HttpError(500)}
        \cup {Timeout, RequestException}

Return_(text) == [next |-> "return", sleep |-> 0, value |-> text]

Retry(seconds) == [next |-> "continue", sleep |-> seconds, value |-> ""]

Raise(error) == [next |-> "raise", sleep |-> 0, value |-> error]

RECURSIVE pow2(_)
pow2(k) == IF k = 0 THEN 1 ELSE 2 * pow2(k - 1)

\* the 429 backoff doubled from 1 s: 2 ** attempt
wait_time_from_one(a) == pow2(a)

\* wait_time = 2 ** (attempt + 1)
wait_time(a) == pow2(a + 1)

\* the retry test with the last attempt counted as one more to come
attempts_remain_one_more(a) == a < max_retries

\* if attempt < max_retries - 1
attempts_remain(a) == a < max_retries - 1

\* a success that falls through to the next round of the loop
on_success_continue(o, a) == Retry(0)

\* return data["choices"][0]["message"]["content"]
on_success(o, a) == Return_(o.text)

\* except HTTPError with every status retried like 429
on_http_error_retry_all(o, a) ==
    IF attempts_remain(a) THEN Retry(wait_time(a)) ELSE Raise("RateLimitExhausted")

\* except HTTPError as e
on_http_error(o, a) ==
    IF o.status = 429
    THEN IF attempts_remain(a)
         THEN Retry(wait_time(a))
         ELSE Raise("RateLimitExhausted")
    ELSE Raise("HttpError")

\* except Timeout with the backoff of the 429 branch
on_timeout_exponential(o, a) ==
    IF attempts_remain(a) THEN Retry(wait_time(a)) ELSE Raise("Timeout")

\* except requests.exceptions.Timeout
on_timeout(o, a) ==
    IF attempts_remain(a) THEN Retry(timeout_sleep) ELSE Raise("Timeout")

\* except requests.exceptions.RequestException as e
on_request_exception(o, a) == Raise("RequestError")

\* the try statement of one round of the loop, after the request ended in o
handle(o, a) ==
    CASE o.kind = "ok"      -> on_success(o, a)
      [] o.kind = "http"    -> on_http_error(o, a)
      [] o.kind = "timeout" -> on_timeout(o, a)
      [] OTHER              -> on_request_exception(o, a)

NoResult == [kind |-> "none", value |-> ""]

\* a caller calls _call_groq(messages) of a game master
StartCall ==
    /\ cpc = "idle"
    /\ calls < MaxCalls
    /\ calls' = calls + 1
    /\ cpc' = "attempt"
    /\ scenario' = "mar"
    /\ attempt' = 0
    /\ UNCHANGED <<now, requests, lim, outcomes, sleeps, waits, lim_sleeps, result,
                   http_sent>>
    /\ UNCHANGED <<inbound_vars, session_vars>>

\* for attempt in range(max_retries): self.rate_limiter.wait_if_needed();
\* a loop that runs out leaves the function, which then returns None
Attempt ==
    /\ cpc = "attempt"
    /\ lim = "idle"
    /\ IF attempt < max_retries
       THEN /\ waits' = waits + 1
            /\ WaitBegin
            /\ Forget(now')
            /\ cpc' = "post"
            /\ result' = result
       ELSE /\ result' = [kind |-> "returned", value |-> "None"]
            /\ cpc' = "done"
            /\ UNCHANGED <<now, requests, lim, waits, lim_sleeps, admitted, http_sent>>
    /\ UNCHANGED <<scenario, attempt, outcomes, sleeps, calls>>
    /\ UNCHANGED <<ip_requests, last_request_time, last_cleanup, pc, req_ip, resp>>
    /\ UNCHANGED session_vars

\* requests.post(...) ends in o; the except clauses, time.sleep included
Post(o) ==
    /\ cpc = "post"
    /\ scenario = "mar"
    /\ lim = "idle"
    /\ outcomes' = Append(outcomes, o)
    /\ LET h == handle(o, attempt) IN
       /\ now' = now + timedelta(h.sleep)
       /\ http_sent' = in_mar_window(Append(http_sent, now), now + timedelta(h.sleep))
       /\ admitted' = [ip \in IPs |-> in_window(admitted[ip], now + timedelta(h.sleep))]
       /\ IF h.next = "continue"
          THEN /\ sleeps' = IF h.sleep > 0 THEN Append(sleeps, h.sleep) ELSE sleeps
               /\ attempt' = attempt + 1
               /\ cpc' = "attempt"
               /\ result' = result
          ELSE /\ sleeps' = sleeps
               /\ attempt' = attempt
               /\ cpc' = "done"
               /\ result' = [kind |-> IF h.next = "return" THEN "returned" ELSE "raised",
                             value |-> h.value]
    /\ UNCHANGED <<requests, lim, scenario, waits, lim_sleeps, calls>>
    /\ UNCHANGED <<ip_requests, last_request_time, last_cleanup, pc, req_ip, resp>>
    /\ UNCHANGED session_vars

\* the caller takes the result
EndCall ==
    /\ cpc = "done"
    /\ cpc' = "idle"
    /\ scenario' = "none"
    /\ attempt' = 0
    /\ outcomes' = <<>>
    /\ sleeps' = <<>>
    /\ waits' = 0
    /\ lim_sleeps' = 0
    /\ result' = NoResult
    /\ UNCHANGED <<now, requests, lim, calls, http_sent>>
    /\ UNCHANGED <<inbound_vars, session_vars>>

(***************************************************************************)
(* The scenario handlers: operacao_cinzas_handler, mangue_handler and      *)
(* mar_handler build a game master for every request and call _call_groq   *)
(***************************************************************************)
Scenarios == {"floresta", "mangue", "mar"}

\* GroqGameMaster._call_groq and MangueGameMaster._call_groq: one request,
\* every RequestException raised again as Exception("Erro na API Groq: ...")
call_groq_once(o) ==
    IF o.kind = "ok" THEN Return_(o.text) ELSE Raise("GroqApiError")

\* a handler builds its game master (MarGameMaster.__init__ builds a new
\* RateLimiter) and the turn reaches _call_groq
HandlerCall(scn) ==
    /\ cpc = "idle"
    /\ calls < MaxCalls
    /\ calls' = calls + 1
    /\ scenario' = scn
    /\ attempt' = 0
    /\ IF scn = "mar"
       THEN /\ requests' = <<>>
            /\ lim' = "idle"
            /\ cpc' = "attempt"
       ELSE /\ UNCHANGED <<requests, lim>>
            /\ cpc' = "post"
    /\ UNCHANGED <<now, outcomes, sleeps, waits, lim_sleeps, result, http_sent>>
    /\ UNCHANGED <<inbound_vars, session_vars>>

\* the single requests.post of the floresta and mangue game masters ends in o
PostOnce(o) ==
    /\ cpc = "post"
    /\ scenario \in {"floresta", "mangue"}
    /\ outcomes' = Append(outcomes, o)
    /\ http_sent' = Append(http_sent, now)
    /\ LET h == call_groq_once(o) IN
       result' = [kind |-> IF h.next = "return" THEN "returned" ELSE "raised",
                  value |-> h.value]
    /\ cpc' = "done"
    /\ UNCHANGED <<now, requests, lim, scenario, attempt, sleeps, waits, lim_sleeps,
                   calls>>
    /\ UNCHANGED <<inbound_vars, session_vars>>

(***************************************************************************)
(* Text.  A Python str is a sequence of tokens; a token is a word, a         *)
(* separator or a whole JSON document.                                     *)
(***************************************************************************)
NL == "<newline>"

SP == "<space>"

QUOTE == "<quote>"

\* the marker create_summary scans for, "Decisão:"
DecisionMarker == "Decisao:"

\* x in s
Contains(s, x) == \E i \in 1..Len(s) : s[i] = x

\* s.find(x) + 1: the first place of x in s, 0 when x is not in s
Find(s, x) ==
    IF Contains(s, x)
    THEN CHOOSE i \in 1..Len(s) : s[i] = x /\ \A j \in 1..(i - 1) : s[j] # x
    ELSE 0

\* s.split(sep)[0]
SplitFirst(s, sep) ==
    IF Find(s, sep) = 0 THEN s ELSE SubSeq(s, 1, Find(s, sep) - 1)

\* s.split(sep)[1], for s that contains sep
SplitSecond(s, sep) ==
    SplitFirst(SubSeq(s, Find(s, sep) + 1, Len(s)), sep)

RECURSIVE lstrip(_, _)
lstrip(s, chars) ==
    IF s # <<>> /\ Head(s) \in chars THEN lstrip(Tail(s), chars) ELSE s

RECURSIVE rstrip(_, _)
rstrip(s, chars) ==
    IF s # <<>> /\ s[Len(s)] \in chars
    THEN rstrip(SubSeq(s, 1, Len(s) - 1), chars) ELSE s

\* s.strip(chars)
strip(s, chars) == rstrip(lstrip(s, chars), chars)

\* sep.join(parts)
RECURSIVE join(_, _)
join(parts, sep) ==
    IF parts = <<>> THEN <<>>
    ELSE IF Len(parts) = 1 THEN parts[1]
    ELSE parts[1] \o <<sep>> \o join(Tail(parts), sep)

\* lst[-n:] of Python for n >= 0: the last n entries, and the whole list for n = 0
slice_last(lst, n) ==
    IF n = 0 \/ n >= Len(lst) THEN lst ELSE SubSeq(lst, Len(lst) - n + 1, Len(lst))

\* lst[:-n] of Python for n >= 0: all but the last n entries, and nothing for n = 0
slice_but_last(lst, n) ==
    IF n = 0 \/ n >= Len(lst) THEN <<>> ELSE SubSeq(lst, 1, Len(lst) - n)

(***************************************************************************)
(* ContextManager of floresta.py, mangue.py and mar.py                     *)
(***************************************************************************)
max_history == 3                \* ContextManager(max_history=3)

Msg(role, content) == [role |-> role, content |-> content]

\* the decision of one old prompt:
\* content.split("Decisão:")[1].split("\n")[0].strip(' "')
decision_of(content) ==
    strip(SplitFirst(SplitSecond(content, DecisionMarker), NL), {SP, QUOTE})

\* the decisions of the user messages of old_history that hold the marker
RECURSIVE decisions_of(_)
decisions_of(old_history) ==
    IF old_history = <<>> THEN <<>>
    ELSE IF /\ Head(old_history).role = "user"
            /\ Contains(Head(old_history).content, DecisionMarker)
         THEN <<decision_of(Head(old_history).content)>>
                  \o decisions_of(Tail(old_history))
         ELSE decisions_of(Tail(old_history))

\* ContextManager._create_summary of scenario scn
create_summary(old_history, scn) ==
    LET decisions == decisions_of(old_history) IN
    IF decisions # <<>>
    THEN <<IF scn = "floresta" THEN "Acoes anteriores: " ELSE "Acoes: ">>
             \o join(slice_last(decisions, 3), " -> ")
    ELSE <<IF scn = "floresta" THEN "Investigacao em andamento" ELSE "Investigando">>

\* f"RESUMO ANTERIOR: {summary}" of floresta, f"RESUMO: {summary}" of the others
summary_message(summary, scn) ==
    Msg("user", <<IF scn = "floresta" THEN "RESUMO ANTERIOR: " ELSE "RESUMO: ">>
                    \o summary)

\* compress_history that compresses a history of max_history * 2 messages too
compress_history_strict(h, scn) ==
    IF Len(h) < max_history * 2 THEN h
    ELSE <<summary_message(create_summary(slice_but_last(h, max_history * 2), scn),
                           scn)>>
           \o slice_last(h, max_history * 2)

\* compress_history that keeps max_history messages in place of max_history pairs
compress_history_half(h, scn) ==
    IF Len(h) <= max_history * 2 THEN h
    ELSE <<summary_message(create_summary(slice_but_last(h, max_history), scn),
                           scn)>>
           \o slice_last(h, max_history)

\* compress_history that returns every history as it is
compress_history_off(h, scn) == h

\* ContextManager.compress_history(history, current_phase) of scenario scn
compress_history(h, scn) ==
    IF Len(h) <= max_history * 2 THEN h
    ELSE <<summary_message(create_summary(slice_but_last(h, max_history * 2), scn),
                           scn)>>
           \o slice_last(h, max_history * 2)

NotCompressed == [done |-> FALSE, value |-> <<>>]

\* compress_history(history, phase) of the scenario's context manager is called
CompressHistory ==
    /\ ~compressed.done
    /\ compressed' = [done |-> TRUE, value |-> compress_history(history, game)]
    /\ UNCHANGED <<now, inbound_vars, upstream_vars>>
    /\ UNCHANGED <<game, history, response_text, game_response, game_state, turn,
                   turns>>

(***************************************************************************)
(* JSON values, as json.loads builds them: None, str, int, list and dict.  *)
(* A dict is a function from its keys to values, so that a key can be      *)
(* absent.                                                                 *)
(***************************************************************************)
JNull == [t |-> "null"]

JStr(x) == [t |-> "str", v |-> x]

JNum(n) == [t |-> "num", v |-> n]

JList(l) == [t |-> "list", v |-> l]

JObj(d) == [t |-> "obj", v |-> d]

\* bool(v) of Python
Truthy(x) ==
    CASE x.t = "null" -> FALSE
      [] x.t = "str"  -> x.v # ""
      [] x.t = "num"  -> x.v # 0
      [] x.t = "list" -> x.v # <<>>
      [] OTHER        -> DOMAIN x.v # {}

\* a list or a dict has no hash: it is no key of a dict lookup
Hashable(x) == x.t \notin {"list", "obj"}

\* d.get(k, default) of a dict d
Get(d, k, default) == IF k \in DOMAIN d.v THEN d.v[k] ELSE default

Options3 == JList(<<JStr("a"), JStr("b"), JStr("c")>>)

\* the JSON documents a reply can carry, each one token of the text, with the
\* value json.loads builds from it
JsonDocs ==
    [doc_full |->
        JObj([scene |-> JStr("x"), options |-> Options3,
              clue |-> JStr("boot print"), danger |-> JStr("alto"),
              phase |-> JStr("evidencias")]),
     doc_clue |-> JObj([clue |-> JStr("boot print")]),
     doc_null_clue |->
        JObj([scene |-> JStr("x"), options |-> Options3, clue |-> JNull,
              danger |-> JStr("alto"), phase |-> JStr("p2")]),
     doc_empty_clue |-> JObj([clue |-> JStr(""), danger |-> JStr("baixo")]),
     doc_null_phase |-> JObj([scene |-> JStr("x"), phase |-> JNull]),
     doc_list_phase |-> JObj([phase |-> JList(<<JStr("x")>>)]),
     doc_unknown_danger |-> JObj([danger |-> JStr("extremo")]),
     doc_bad_danger |->
        JObj([clue |-> JStr("boot print"), danger |-> JList(<<JStr("alto")>>)]),
     doc_other_keys |->
        JObj([panel_description |-> JStr("y"),
              evidence_discovered |-> JStr("footprint"),
              danger_level |-> JStr("critico")]),
     doc_list |-> JList(<<>>),
     doc_number |-> JNum(42),
     doc_string |-> JStr("ok"),
     doc_null |-> JNull]

\* the fenced-code marker, three backquotes
FENCE == "<fence>"

JSON_TAG == "json"

Whitespace == {SP, NL}

\* s.startswith(prefix)
startswith(s, prefix) ==
    Len(s) >= Len(prefix) /\ SubSeq(s, 1, Len(prefix)) = prefix

\* s.removeprefix(prefix)
removeprefix(s, prefix) ==
    IF startswith(s, prefix) THEN SubSeq(s, Len(prefix) + 1, Len(s)) ELSE s

\* s.removesuffix(suffix), for a suffix of one token
removesuffix(s, suffix) ==
    IF s # <<>> /\ s[Len(s)] = suffix THEN SubSeq(s, 1, Len(s) - 1) ELSE s

\* json.loads(s): the value of the one document of s, white space around it
\* allowed, and JSONDecodeError for every other text
json_loads(s) ==
    LET doc == strip(s, Whitespace) IN
    IF Len(doc) = 1 /\ doc[1] \in DOMAIN JsonDocs
    THEN [ok |-> TRUE, value |-> JsonDocs[doc[1]]]
    ELSE [ok |-> FALSE, value |-> JNull]

\* INVESTIGATION_PHASES of each scenario: its phase keys, in order
INVESTIGATION_PHASES(scn) ==
    CASE scn = "floresta" ->
            <<"descoberta", "investigacao_inicial", "evidencias", "confronto",
              "resolucao">>
      [] scn = "mangue" ->
            <<"chegada", "dialogo", "documentacao", "evidencias", "desfecho">>
      [] OTHER ->
            <<"denuncia", "confronto_inicial", "inspecao", "comunidade", "decisao">>

\* the fallback of floresta.py pasted into the other two scenarios
fallback_pasted(scn) ==
    JObj([scene |-> JStr("A floresta aguarda sua decisao. O tempo passa."),
          options |-> JList(<<JStr("Avancar cautelosamente"),
                              JStr("Analisar o ambiente"),
                              JStr("Chamar reforcos")>>),
          clue |-> JNull, danger |-> JStr("medio"), phase |-> JStr("descoberta")])

\* the dict _clean_json_response returns on JSONDecodeError
fallback(scn) ==
    CASE scn = "floresta" ->
            JObj([scene |-> JStr("A floresta aguarda sua decisao. O tempo passa."),
                  options |-> JList(<<JStr("Avancar cautelosamente"),
                                      JStr("Analisar o ambiente"),
                                      JStr("Chamar reforcos")>>),
                  clue |-> JNull, danger |-> JStr("medio"),
                  phase |-> JStr("descoberta")])
      [] scn = "mangue" ->
            JObj([scene |-> JStr("O mangue aguarda. Decisoes dificeis pela frente."),
                  options |-> JList(<<JStr("Investigar mais"),
                                      JStr("Confrontar proprietario"),
                                      JStr("Buscar provas")>>),
                  clue |-> JNull, danger |-> JStr("medio"),
                  phase |-> JStr("chegada")])
      [] OTHER ->
            JObj([scene |-> JStr("O oceano ruge. Uma decisao precisa ser tomada."),
                  options |-> JList(<<JStr("Abordar o barco"),
                                      JStr("Observar a distancia"),
                                      JStr("Contatar a base")>>),
                  clue |-> JNull, danger |-> JStr("medio"),
                  phase |-> JStr("denuncia")])

\* _clean_json_response(response_text) of the game master of scenario scn:
\* strip, drop a leading fence with json, then a leading fence, then a trailing fence,
\* strip again, json.loads
clean_json_response(text, scn) ==
    LET unfenced ==
            removesuffix(
                removeprefix(
                    removeprefix(strip(text, Whitespace), <<FENCE, JSON_TAG>>),
                    <<FENCE>>),
                FENCE)
        parsed == json_loads(strip(unfenced, Whitespace))
    IN IF parsed.ok THEN parsed.value ELSE fallback(scn)

NotParsed == [done |-> FALSE, value |-> JNull]

\* _clean_json_response(response_text) of the scenario's game master is called
CleanJsonResponse ==
    /\ ~game_response.done
    /\ game_response' =
           [done |-> TRUE, value |-> clean_json_response(response_text, game)]
    /\ UNCHANGED <<now, inbound_vars, upstream_vars>>
    /\ UNCHANGED <<game, history, compressed, response_text, game_state, turn,
                   turns>>

(***************************************************************************)
(* The game masters: GroqGameMaster of floresta.py, MangueGameMaster of    *)
(* mangue.py, MarGameMaster of mar.py.  The three differ in their texts,   *)
(* in the keys floresta.py also accepts and in the first danger_meter.     *)
(***************************************************************************)
first_phase(scn) == INVESTIGATION_PHASES(scn)[1]

\* is the phase value one of the keys of INVESTIGATION_PHASES
is_phase_key(x, scn) ==
    x.t = "str" /\ \E i \in 1..Len(INVESTIGATION_PHASES(scn)) :
                       INVESTIGATION_PHASES(scn)[i] = x.v

\* INVESTIGATION_PHASES.get(game_state["phase"], INVESTIGATION_PHASES[first]):
\* the key whose phase_info is used
phase_info(phase, scn) ==
    IF is_phase_key(phase, scn) THEN phase.v ELSE first_phase(scn)

\* [e for e in evidence[-3:] if e]
RECURSIVE truthy_only(_)
truthy_only(l) ==
    IF l = <<>> THEN <<>>
    ELSE IF Truthy(Head(l)) THEN <<Head(l)>> \o truthy_only(Tail(l))
    ELSE truthy_only(Tail(l))

recent_evidence(evidence) == truthy_only(slice_last(evidence, 3))

\* ', '.join(recent) raises TypeError for an entry that is no str
joinable(l) == \A i \in 1..Len(l) : l[i].t = "str"

\* ContextManager.prioritize_content(phase_info, evidence); title and key_clues
\* of the phase stand as the phase key
prioritize_content(info, evidence) ==
    <<"Fase", info, " | ", "Pistas: ", info>>
        \o (IF recent_evidence(evidence) # <<>>
            THEN <<" | ", "Evidencias: ">>
                   \o join([i \in 1..Len(recent_evidence(evidence)) |->
                                <<recent_evidence(evidence)[i].v>>], ", ")
            ELSE <<>>)

\* opening_prompt of start_game
opening_prompt(scn) == <<"ABERTURA", scn>>

\* continue_prompt of continue_game: floresta.py writes "Decisão do jogador:"
\* and adds the atmosphere of the phase, the other two write "Decisão:"
continue_prompt(scn, context, info, decision) ==
    IF scn = "floresta"
    THEN <<"CONTINUAR", NL, NL>> \o context
             \o <<NL, "Atmosfera: ", info, NL, NL, "Decisao do jogador:", SP, QUOTE>>
             \o decision \o <<QUOTE, NL, NL, "Narre consequencias.">>
    ELSE <<"CONTINUAR", NL>> \o context
             \o <<NL, DecisionMarker, SP, QUOTE>>
             \o decision \o <<QUOTE, NL, "Narre.">>

SYSTEM_PROMPT(scn) == Msg("system", <<"SYSTEM_PROMPT", scn>>)

\* the keys of the reply: floresta.py reads a second key when the first is absent
standardize(d, scn, default_phase) ==
    IF scn = "floresta"
    THEN [panel_description |->
              Get(d, "scene", Get(d, "panel_description", JStr(""))),
          inner_voice_options |->
              Get(d, "options", Get(d, "inner_voice_options", JList(<<>>))),
          evidence_discovered |->
              Get(d, "clue", Get(d, "evidence_discovered", JNull)),
          danger_level |->
              Get(d, "danger", Get(d, "danger_level", JStr("medio"))),
          phase |-> Get(d, "phase", default_phase)]
    ELSE [panel_description |-> Get(d, "scene", JStr("")),
          inner_voice_options |-> Get(d, "options", JList(<<>>)),
          evidence_discovered |-> Get(d, "clue", JNull),
          danger_level |-> Get(d, "danger", JStr("medio")),
          phase |-> Get(d, "phase", default_phase)]

\* a lookup that reads an unknown label as no danger at all
danger_map_or_zero(level) ==
    CASE level = JStr("baixo")   -> 20
      [] level = JStr("medio")   -> 40
      [] level = JStr("alto")    -> 70
      [] level = JStr("critico") -> 95
      [] OTHER                   -> 0

\* danger_map.get(level, 40)
danger_map(level) ==
    CASE level = JStr("baixo")   -> 20
      [] level = JStr("medio")   -> 40
      [] level = JStr("alto")    -> 70
      [] level = JStr("critico") -> 95
      [] OTHER                   -> 40

\* "danger_meter" of the initial_state of start_game
initial_danger_meter(scn) ==
    CASE scn = "floresta" -> 25
      [] scn = "mangue"   -> 30
      [] OTHER            -> 40

\* the evidence list that takes every clue, None and "" too
collect_evidence_always(evidence, clue) == Append(evidence, clue)

\* if standardized["evidence_discovered"]: evidence_collected.append(...)
collect_evidence(evidence, clue) ==
    IF Truthy(clue) THEN Append(evidence, clue) ELSE evidence

NoNarrative == [panel_description |-> JNull, inner_voice_options |-> JNull,
                evidence_discovered |-> JNull, danger_level |-> JNull,
                phase |-> JNull]

NoGameState == [phase |-> JNull, evidence_collected |-> <<>>, danger_meter |-> 0,
                conversation_history |-> <<>>]

\* what a turn returns, with the game_state dict as the call leaves it
Success(gs, narrative, messages) ==
    [status |-> "success", game_state |-> gs, narrative |-> narrative,
     messages |-> messages]

\* except Exception as e: return {"status": "error", "error": str(e)}
Error(gs, messages) ==
    [status |-> "error", game_state |-> gs, narrative |-> NoNarrative,
     messages |-> messages]

\* an exception raised outside the try statement leaves the game master
Uncaught(gs) ==
    [status |-> "exception", game_state |-> gs, narrative |-> NoNarrative,
     messages |-> <<>>]

\* start_game(), whose _call_groq returned or raised r
start_game(scn, r) ==
    LET messages == <<SYSTEM_PROMPT(scn), Msg("user", opening_prompt(scn))>> IN
    IF r.kind = "raised" THEN Error(NoGameState, messages)
    ELSE LET game_response_ == clean_json_response(r.value, scn) IN
         IF game_response_.t # "obj" THEN Error(NoGameState, messages)
         ELSE LET standardized == standardize(game_response_, scn,
                                              JStr(first_phase(scn)))
                  initial_state ==
                      [phase |-> JStr(first_phase(scn)),
                       evidence_collected |->
                           IF Truthy(standardized.evidence_discovered)
                           THEN <<standardized.evidence_discovered>> ELSE <<>>,
                       danger_meter |-> initial_danger_meter(scn),
                       conversation_history |->
                           <<Msg("user", opening_prompt(scn)),
                             Msg("assistant", r.value)>>]
              IN Success(initial_state, standardized, messages)

\* continue_game(player_decision, game_state), whose _call_groq returned or
\* raised r; gs is the caller's dict, which the method changes in place
continue_game(scn, player_decision, gs, r) ==
    IF ~Hashable(gs.phase) \/ ~joinable(recent_evidence(gs.evidence_collected))
    THEN Uncaught(gs)
    ELSE
    LET info == phase_info(gs.phase, scn)
        context == prioritize_content(info, gs.evidence_collected)
        compressed_history == compress_history(gs.conversation_history, scn)
        prompt == continue_prompt(scn, context, info, player_decision)
        messages == <<SYSTEM_PROMPT(scn)>> \o compressed_history
                        \o <<Msg("user", prompt)>>
    IN
    IF r.kind = "raised" THEN Error(gs, messages)
    ELSE LET game_response_ == clean_json_response(r.value, scn) IN
         IF game_response_.t # "obj" THEN Error(gs, messages)
         ELSE LET standardized == standardize(game_response_, scn, gs.phase)
                  gs1 == [gs EXCEPT !.evidence_collected =
                              collect_evidence(@, standardized.evidence_discovered)]
                  gs2 == [gs1 EXCEPT
                             !.danger_meter = danger_map(standardized.danger_level),
                             !.phase = standardized.phase,
                             !.conversation_history =
                                 @ \o <<Msg("user", prompt),
                                        Msg("assistant", r.value)>>]
              IN IF ~Hashable(standardized.danger_level) THEN Error(gs1, messages)
                 ELSE IF ~Hashable(gs2.phase) THEN Error(gs2, messages)
                 ELSE Success(gs2, standardized, messages)

NoTurn == [action |-> "none", status |-> "none", reply |-> [kind |-> "none"],
           before |-> NoGameState, narrative |-> NoNarrative, messages |-> <<>>]

\* what the caller's _call_groq can end in: a reply text or an exception
CallReturned(text) == [kind |-> "returned", value |-> text]

CallRaised == [kind |-> "raised", value |-> <<>>]

\* a handler is called with action "start": it builds the game master of
\* scenario scn and calls start_game
StartGame(scn, r) ==
    /\ game_state = NoGameState
    /\ game' = scn
    /\ LET res == start_game(scn, r) IN
       /\ game_state' = res.game_state
       /\ turn' = [action |-> "start", status |-> res.status, reply |-> r,
                   before |-> game_state, narrative |-> res.narrative,
                   messages |-> res.messages]
    /\ UNCHANGED <<now, inbound_vars, upstream_vars>>
    /\ UNCHANGED <<history, compressed, response_text, game_response, turns>>

\* a handler is called with action "continue" and the caller's game_state: it
\* builds the game master of the session's scenario and calls continue_game
ContinueGame(player_decision, r) ==
    /\ game_state # NoGameState
    /\ turns < MaxTurns
    /\ turns' = turns + 1
    /\ LET res == continue_game(game, player_decision, game_state, r) IN
       /\ game_state' = res.game_state
       /\ turn' = [action |-> "continue", status |-> res.status, reply |-> r,
                   before |-> game_state, narrative |-> res.narrative,
                   messages |-> res.messages]
    /\ UNCHANGED <<now, inbound_vars, upstream_vars>>
    /\ UNCHANGED <<game, history, compressed, response_text, game_response>>

\* the messages a history given to compress_history is made of
CompressEntries ==
    {Msg("user", opening_prompt("mar")),
     Msg("user", continue_prompt("mar", <<"Fase">>, "denuncia", <<"follow">>)),
     Msg("assistant", <<"doc_full">>)}

\* the continue prompt of mar that carries the player's decision
decision_prompt(decision) ==
    Msg("user", continue_prompt("mar", <<"Fase">>, "denuncia", decision))

\* the messages the old part of a long history is made of: prompts with a
\* decision, one of them a decision that quotes the marker, the opening prompt,
\* which has no marker, and a reply that has the marker
OlderEntries ==
    {decision_prompt(<<"follow">>),
     decision_prompt(<<"wait">>),
     decision_prompt(<<"go", DecisionMarker, "back">>),
     Msg("user", opening_prompt("mar")),
     Msg("assistant", <<DecisionMarker, SP, "flee">>)}

\* the last max_history * 2 messages of a long history: prompts with a
\* decision and their replies
RecentEntries ==
    [i \in 1..(max_history * 2) |->
        IF i % 2 = 1 THEN decision_prompt(<<"hide">>)
        ELSE Msg("assistant", <<"doc_full">>)]

\* the game_state a client holds after a start and n continue turns of
\* scenario scn, each with the decision "follow" and a reply that has nothing
\* but an unknown danger label
RECURSIVE played(_, _)
played(scn, n) ==
    IF n = 0
    THEN start_game(scn, CallReturned(<<"doc_unknown_danger">>)).game_state
    ELSE continue_game(scn, <<"follow">>, played(scn, n - 1),
                       CallReturned(<<"doc_unknown_danger">>)).game_state

\* the tokens a reply text given to _clean_json_response is made of
ParseTokens == {SP, FENCE, JSON_TAG, "doc_full", "doc_list", "Desculpe"}

\* the sequences over S of length at most n
SeqsUpTo(S, n) == UNION {[1..k -> S] : k \in 0..n}

\* the player's decisions
Decisions == {<<"follow">>}

\* the reply texts of the upstream model in a session: each JSON document
\* alone, a text that is no JSON, and a document inside a fence
ReplyTexts ==
    {<<d>> : d \in DOMAIN JsonDocs}
        \cup {<<"Desculpe">>,
              <<FENCE, JSON_TAG, NL, "doc_null_clue", NL, FENCE>>}

CallResults == {CallReturned(x) : x \in ReplyTexts} \cup {CallRaised}

(***************************************************************************)
(* main.py scenario_endpoint, the route that decorated_function wraps: it  *)
(* checks the body, calls the scenario's handler and answers               *)
(***************************************************************************)

\* the bodies a client sends: one that the checks of scenario_endpoint refuse
\* with 400, a start while it has no game_state, and a continue with its
\* game_state
Bodies == {"invalid", "start", "continue"}

\* what the upstream call of a turn served by the route ends in
RouteResults == {CallReturned(<<"doc_clue">>), CallRaised}

\* status_code = 200 if resultado.get('status') == 'success' else 500
status_code(status) == IF status = "success" THEN 200 ELSE 500

\* 4: response = f(*args, **kwargs) with f = scenario_endpoint of scenario scn.
\* The handler works on the game_state parsed from the body; the client's
\* game_state becomes the one of the answer, which only a success carries.
\* The upstream call of the turn is counted in calls and ends as r says
ScenarioEndpoint(t, scn, body, r) ==
    /\ pc[t] = "handler"
    /\ body # "invalid" => calls < MaxCalls
    /\ pc' = [pc EXCEPT ![t] = "respond"]
    /\ CASE body = "invalid" ->
              /\ resp' = [resp EXCEPT ![t] =
                             [@ EXCEPT !.code = "INVALID_ACTION", !.status = 400]]
              /\ UNCHANGED <<game, game_state, turn, turns>>
         [] body = "start" ->
              LET res == start_game(scn, r) IN
              /\ game_state = NoGameState
              /\ resp' = [resp EXCEPT ![t] =
                             [@ EXCEPT !.code = "HANDLED",
                                       !.status = status_code(res.status)]]
              /\ game' = IF res.status = "success" THEN scn ELSE game
              /\ game_state' =
                     IF res.status = "success" THEN res.game_state ELSE game_state
              /\ turn' = [action |-> "start", status |-> res.status, reply |-> r,
                          before |-> game_state, narrative |-> res.narrative,
                          messages |-> res.messages]
              /\ turns' = turns
         [] OTHER ->
              LET res == continue_game(scn, <<"follow">>, game_state, r) IN
              /\ scn = game
              /\ turns < MaxTurns
              /\ resp' = [resp EXCEPT ![t] =
                             [@ EXCEPT !.code = IF res.status = "exception"
                                                THEN "INTERNAL_ERROR"
                                                ELSE "HANDLED",
                                       !.status = status_code(res.status)]]
              /\ game' = game
              /\ game_state' =
                     IF res.status = "success" THEN res.game_state ELSE game_state
              /\ turn' = [action |-> "continue", status |-> res.status,
                          reply |-> r, before |-> game_state,
                          narrative |-> res.narrative, messages |-> res.messages]
              /\ turns' = turns + 1
    /\ calls' = IF body = "invalid" THEN calls ELSE calls + 1
    /\ UNCHANGED <<now, ip_requests, last_request_time, last_cleanup, req_ip,
                   admitted>>
    /\ UNCHANGED <<requests, lim, cpc, scenario, attempt, outcomes, sleeps, waits,
                   lim_sleeps, result, http_sent>>
    /\ UNCHANGED <<history, compressed, response_text, game_response>>

InitUpstream ==
    /\ requests = <<>>
    /\ lim = "idle"
    /\ cpc = "idle"
    /\ scenario = "none"
    /\ attempt = 0
    /\ outcomes = <<>>
    /\ sleeps = <<>>
    /\ waits = 0
    /\ lim_sleeps = 0
    /\ result = NoResult
    /\ calls = 0
    /\ http_sent = <<>>

InitInbound ==
    /\ ip_requests = Empty
    /\ last_request_time = Empty
    /\ last_cleanup = 0
    /\ pc = [t \in Threads |-> "idle"]
    /\ req_ip = [t \in Threads |-> NoIp]
    /\ resp = [t \in Threads |-> NoResp]
    /\ admitted = [ip \in IPs |-> <<>>]

InitTurns ==
    /\ game_state = NoGameState
    /\ turn = NoTurn
    /\ turns = 0

InitSession ==
    /\ game = "none"
    /\ history = <<>>
    /\ compressed = NotCompressed
    /\ response_text = <<>>
    /\ game_response = NotParsed
    /\ InitTurns

Init ==
    /\ now = 0
    /\ InitInbound
    /\ InitUpstream
    /\ InitSession

\* compress_history is given any history of at most MaxLen messages
InitCompress ==
    /\ now = 0
    /\ InitInbound
    /\ InitUpstream
    /\ game \in Scenarios
    /\ history \in SeqsUpTo(CompressEntries, MaxLen)
    /\ compressed = NotCompressed
    /\ response_text = <<>>
    /\ game_response = NotParsed
    /\ InitTurns

\* compress_history is given a history longer than max_history * 2 messages
InitSummary ==
    /\ now = 0
    /\ InitInbound
    /\ InitUpstream
    /\ game \in Scenarios
    /\ \E older \in SeqsUpTo(OlderEntries, MaxOlder) :
           older # <<>> /\ history = older \o RecentEntries
    /\ compressed = NotCompressed
    /\ response_text = <<>>
    /\ game_response = NotParsed
    /\ InitTurns

\* a client comes back with the game_state of a session under way
InitStored ==
    /\ now = 0
    /\ InitInbound
    /\ InitUpstream
    /\ game \in Scenarios
    /\ \E n \in 0..MaxPairs : game_state = played(game, n)
    /\ history = <<>>
    /\ compressed = NotCompressed
    /\ response_text = <<>>
    /\ game_response = NotParsed
    /\ turn = NoTurn
    /\ turns = 0

\* a client comes back with the game_state of a session that has reached any
\* of the five phases of its scenario, the last one included, at any danger
InitPhases ==
    /\ now = 0
    /\ InitInbound
    /\ InitUpstream
    /\ game \in Scenarios
    /\ \E i \in 1..5, meter \in {40, 95} :
           game_state = [played(game, 1) EXCEPT
                            !.phase = JStr(INVESTIGATION_PHASES(game)[i]),
                            !.danger_meter = meter]
    /\ history = <<>>
    /\ compressed = NotCompressed
    /\ response_text = <<>>
    /\ game_response = NotParsed
    /\ turn = NoTurn
    /\ turns = 0

\* _clean_json_response is given any text of at most MaxTextLen tokens
InitParse ==
    /\ now = 0
    /\ InitInbound
    /\ InitUpstream
    /\ game \in Scenarios
    /\ history = <<>>
    /\ compressed = NotCompressed
    /\ response_text \in SeqsUpTo(ParseTokens, MaxTextLen)
    /\ game_response = NotParsed
    /\ InitTurns

Step(t, clients) ==
    \/ \E ip \in clients : Arrive(t, ip)
    \/ CheckCooldown(t)
    \/ CheckRateLimit(t)
    \/ RegisterRequest(t)
    \/ Cleanup(t)
    \/ Handler(t)
    \/ Return(t)

\* requests are served one at a time by a single worker
NextSerial ==
    \/ Tick
    \/ Step("t1", IPs)

SpecSerial == Init /\ [][NextSerial]_vars

\* two worker threads serve the requests of one client concurrently
NextRace ==
    \/ Tick
    \/ \E t \in Threads : Step(t, {"ip1"})

SpecRace == Init /\ [][NextRace]_vars

\* thread t takes a step of its request while the other thread u is between
\* requests or has its answer: the checks of two requests never overlap
SerialStep(t, u) ==
    /\ pc[u] \in {"idle", "respond"}
    /\ Step(t, {"ip1"})

\* one client whose requests are served one at a time; the answer of one
\* request may still be on its way while the next request is served
NextRetry ==
    \/ Tick
    \/ SerialStep("t1", "t2")
    \/ SerialStep("t2", "t1")

SpecRetry == Init /\ [][NextRetry]_vars

\* one limiter, called again and again
NextLimiter ==
    \/ Tick
    \/ WaitIfNeeded
    \/ WaitWake

SpecLimiter == Init /\ [][NextLimiter]_vars

\* one game master of the mar scenario, whose _call_groq is called again and again
NextCall ==
    \/ Tick
    \/ StartCall
    \/ Attempt
    \/ WaitWake
    \/ \E o \in Outcomes : Post(o)
    \/ EndCall

SpecCall == Init /\ [][NextCall]_vars

\* the process serves the turns of the three scenarios, one after another.  A
\* limiter built for one turn takes at most max_retries timestamps, fewer than
\* its capacity, so that wait_if_needed never sleeps here.
NextProcess ==
    \/ Tick
    \/ \E scn \in Scenarios : HandlerCall(scn)
    \/ Attempt
    \/ \E o \in Outcomes : Post(o)
    \/ \E o \in Outcomes : PostOnce(o)
    \/ EndCall

SpecProcess == Init /\ [][NextProcess]_vars

\* one worker serves the requests of one client, whose turns reach the
\* scenario routes
NextService ==
    \/ Tick
    \/ Arrive("t1", "ip1")
    \/ CheckCooldown("t1")
    \/ CheckRateLimit("t1")
    \/ RegisterRequest("t1")
    \/ Cleanup("t1")
    \/ \E scn \in Scenarios, body \in Bodies, r \in RouteResults :
           ScenarioEndpoint("t1", scn, body, r)
    \/ Return("t1")

SpecService == Init /\ [][NextService]_vars

\* the context manager of one scenario compresses one history
NextCompress == CompressHistory

SpecCompress == InitCompress /\ [][NextCompress]_vars

\* the context manager of one scenario compresses one long history
SpecSummary == InitSummary /\ [][NextCompress]_vars

\* the game master of one scenario parses one reply text
NextParse == CleanJsonResponse

SpecParse == InitParse /\ [][NextParse]_vars

\* one session: a start, then the continue turns of the same scenario, the
\* caller passing the game_state of the turn before
NextSession ==
    \/ \E scn \in Scenarios, r \in CallResults : StartGame(scn, r)
    \/ \E d \in Decisions, r \in CallResults : ContinueGame(d, r)

SpecSession == Init /\ [][NextSession]_vars

\* the continue turns of a session that was started and played before
NextStored ==
    \E player_decision \in Decisions, r \in CallResults :
        ContinueGame(player_decision, r)

SpecStored == InitStored /\ [][NextStored]_vars

\* the continue turns of a session that stands in any phase
SpecPhases == InitPhases /\ [][NextStored]_vars

(***************************************************************************)
(* Claims about the inbound rate limiter                                   *)
(***************************************************************************)
Denials == {"COOLDOWN_ACTIVE", "RATE_LIMIT_EXCEEDED"}

\* thread t has just answered a request with a denial, at the current clock
JustDenied(t) ==
    /\ pc[t] = "respond"
    /\ resp[t].code \in Denials
    /\ resp[t].at = now

\* thread t has just passed both checks, at the current clock, and not yet registered
JustAllowed(t) ==
    /\ pc[t] = "register_request"
    /\ resp[t].at = now

\* C1: once max_requests_per_minute requests of an ip were admitted and all of
\* them are at most time_window old, a request of that ip is never allowed, a
\* denial carries status 429 and a retry_after > 0, and so the admitted
\* timestamps of an ip inside one closed window never exceed the maximum.
C1_WindowBound ==
    /\ \A t \in Threads :
          JustAllowed(t) =>
              Len(in_window(admitted[req_ip[t]], now)) < max_requests_per_minute
    /\ \A t \in Threads :
          JustDenied(t) => resp[t].status = 429 /\ resp[t].retry_after > 0
    /\ \A ip \in IPs :
          Len(in_window(admitted[ip], now)) <= max_requests_per_minute

\* C1's case: a request denied by the window check with the window full
C1_Witness ==
    \E t \in Threads :
        /\ JustDenied(t)
        /\ resp[t].code = "RATE_LIMIT_EXCEEDED"
        /\ Len(in_window(admitted[req_ip[t]], now)) = max_requests_per_minute

\* a request of ip read at clock n is well-behaved: the last admitted request
\* of ip is at least the cooldown old, and the closed window [n - time_window, n]
\* holds at most max_requests_per_minute requests with this one
WellBehaved(ip, n) ==
    /\ \/ admitted[ip] = <<>>
       \/ n - Last(admitted[ip]) >= timedelta(cooldown_seconds)
    /\ Len(in_window(admitted[ip], n)) + 1 <= max_requests_per_minute

\* C2: a well-behaved request is never denied.  (All earlier requests of a
\* well-behaved sequence were admitted, so the admitted history is the
\* sequence of the ip's requests.)
C2_WellBehavedAllowed ==
    \A t \in Threads : JustDenied(t) => ~WellBehaved(req_ip[t], now)

\* C2's case: a well-behaved request allowed exactly time_window after an
\* admitted one, which the window check still counts
C2_Witness ==
    \E t \in Threads :
        /\ JustAllowed(t)
        /\ WellBehaved(req_ip[t], now)
        /\ admitted[req_ip[t]] # <<>>
        /\ now - Head(admitted[req_ip[t]]) = time_window

\* C3 as stated: whatever the interleaving, two admitted requests of one ip
\* are at least the cooldown apart and one window never holds more than
\* max_requests_per_minute admitted timestamps
C3_AtomicAdmission ==
    \A ip \in IPs :
        /\ \A i \in 1..(Len(admitted[ip]) - 1) :
              admitted[ip][i + 1] - admitted[ip][i] >= timedelta(cooldown_seconds)
        /\ Len(in_window(admitted[ip], now)) <= max_requests_per_minute

(***************************************************************************)
(* Claims about the upstream rate limiter                                  *)
(***************************************************************************)

\* C4 as stated: after every wait_if_needed, at most mar_max_requests of the
\* registered timestamps lie within mar_time_window of the newest one
C4_UpstreamBound ==
    requests # <<>> =>
        Len(in_mar_window(requests, Last(requests))) <= mar_max_requests

\* C5 as stated: all the HTTP requests the process sends, whatever the
\* scenario and the turn, are at most mar_max_requests in any window
C5_ProcessWideGate ==
    Len(in_mar_window(http_sent, now)) <= mar_max_requests

(***************************************************************************)
(* Claims about _call_groq of the mar game master                          *)
(***************************************************************************)
Returned(text) == [kind |-> "returned", value |-> text]

Raised(error) == [kind |-> "raised", value |-> error]

\* C6: after 429, 429 and a success the call has returned the text of the
\* third attempt, made three requests and slept 2 s, then 4 s; the sleep after
\* the first 429 is 2 s
C6_TwoRateLimitsThenSuccess ==
    /\ (Len(outcomes) >= 1 /\ outcomes[1] = HttpError(429))
          => Len(sleeps) >= 1 /\ sleeps[1] = 2
    /\ (/\ Len(outcomes) = 3
        /\ outcomes[1] = HttpError(429)
        /\ outcomes[2] = HttpError(429)
        /\ outcomes[3].kind = "ok")
          => /\ cpc = "done"
             /\ result = Returned(outcomes[3].text)
             /\ sleeps = <<2, 4>>
             /\ waits = 3

C6_Witness ==
    /\ cpc = "done"
    /\ outcomes = <<HttpError(429), HttpError(429), Ok("reply2")>>

\* C7: after max_retries answers 429 the call has raised the rate limit error,
\* without a sleep after the last attempt, and no call makes more than
\* max_retries requests
C7_RateLimitExhausted ==
    /\ Len(outcomes) <= max_retries
    /\ (/\ Len(outcomes) = max_retries
        /\ \A i \in 1..max_retries : outcomes[i] = HttpError(429))
          => /\ cpc = "done"
             /\ result = Raised("RateLimitExhausted")
             /\ sleeps = <<2, 4>>
             /\ waits = max_retries

C7_Witness ==
    /\ cpc = "done"
    /\ outcomes = <<HttpError(429), HttpError(429), HttpError(429)>>

\* C8: a successful attempt is the last of its call: the call has returned
\* that attempt's text, and made no request, no sleep and no wait_if_needed
\* call beyond those of the attempts up to it
C8_FirstSuccessReturns ==
    \A i \in 1..Len(outcomes) :
        outcomes[i].kind = "ok" =>
            /\ i = Len(outcomes)
            /\ cpc = "done"
            /\ result = Returned(outcomes[i].text)
            /\ Len(sleeps) = i - 1
            /\ waits = i

C8_Witness ==
    /\ Len(outcomes) = 2
    /\ outcomes[2] = Ok("reply1")
    /\ cpc = "done"

\* C9: the sleep after a timed-out attempt with attempts left is 2 s whatever
\* the attempt, and after max_retries timeouts the call has raised the timeout
\* error after max_retries requests
C9_TimeoutRetry ==
    /\ \A i \in 1..Len(outcomes) :
          (outcomes[i] = Timeout /\ i < max_retries)
              => Len(sleeps) >= i /\ sleeps[i] = 2
    /\ (/\ Len(outcomes) = max_retries
        /\ \A i \in 1..max_retries : outcomes[i] = Timeout)
          => /\ cpc = "done"
             /\ result = Raised("Timeout")
             /\ sleeps = <<2, 2>>
             /\ waits = max_retries

C9_Witness ==
    /\ cpc = "done"
    /\ outcomes = <<Timeout, Timeout, Timeout>>

\* C10: an attempt that ends in an HTTP error other than 429 or in a network
\* error other than a timeout is the last of its call: the call has raised,
\* with no sleep and no wait_if_needed call after that attempt
C10_FatalFailsAtOnce ==
    \A i \in 1..Len(outcomes) :
        (\/ outcomes[i].kind = "network"
         \/ (outcomes[i].kind = "http" /\ outcomes[i].status # 429))
            => /\ i = Len(outcomes)
               /\ cpc = "done"
               /\ result.kind = "raised"
               /\ result.value = (IF outcomes[i].kind = "http"
                                  THEN "HttpError" ELSE "RequestError")
               /\ Len(sleeps) = i - 1
               /\ waits = i

C10_Witness ==
    /\ cpc = "done"
    /\ Len(outcomes) = 2
    /\ outcomes[1] = HttpError(429)
    /\ outcomes[2] = HttpError(500)

(***************************************************************************)
(* Claims about the context manager                                        *)
(***************************************************************************)

\* C11: compress_history returns a history of at most 2 * max_history messages
\* as it is: the same messages in the same order and nothing added, the empty
\* history and the history of exactly 2 * max_history messages included
C11_ShortUnchanged ==
    (compressed.done /\ Len(history) <= 2 * max_history)
        => compressed.value = history

\* C11's case: a history of exactly 2 * max_history messages was compressed
C11_Witness ==
    /\ compressed.done
    /\ Len(history) = 2 * max_history
    /\ compressed.value = history

\* C12: compress_history of a history of more than 2 * max_history messages
\* returns 2 * max_history + 1 messages: one summary message of role user, then
\* the last 2 * max_history messages of the history, unchanged and in order
C12_LongCompressed ==
    (compressed.done /\ Len(history) > 2 * max_history)
        => /\ Len(compressed.value) = 2 * max_history + 1
           /\ compressed.value[1].role = "user"
           /\ Head(compressed.value[1].content) \in {"RESUMO: ", "RESUMO ANTERIOR: "}
           /\ \A i \in 1..(2 * max_history) :
                  compressed.value[i + 1]
                      = history[Len(history) - 2 * max_history + i]

\* C12's case: a history two messages longer than 2 * max_history was compressed
C12_Witness ==
    /\ compressed.done
    /\ Len(history) = 2 * max_history + 2
    /\ Len(compressed.value) = 2 * max_history + 1

(***************************************************************************)
(* Claims about _clean_json_response                                       *)
(***************************************************************************)

\* the text is a JSON document, alone or inside the fence: after the white
\* space around it, an optional opening fence (with or without json), the
\* document with white space around it, an optional closing fence
Parseable(text) ==
    LET t == strip(text, Whitespace) IN
    \E pre \in {<<>>, <<FENCE>>, <<FENCE, JSON_TAG>>, <<FENCE, JSON_TAG, FENCE>>},
       suf \in {<<>>, <<FENCE>>} :
        /\ Len(t) >= Len(pre) + Len(suf) + 1
        /\ SubSeq(t, 1, Len(pre)) = pre
        /\ SubSeq(t, Len(t) - Len(suf) + 1, Len(t)) = suf
        /\ LET mid == strip(SubSeq(t, Len(pre) + 1, Len(t) - Len(suf)), Whitespace)
           IN Len(mid) = 1 /\ mid[1] \in DOMAIN JsonDocs

\* the fixed fallback turn of scenario scn: a placeholder scene, three
\* placeholder options, no clue, danger medium, the scenario's first phase key
IsFallbackTurn(x, scn) ==
    /\ x.t = "obj"
    /\ DOMAIN x.v = {"scene", "options", "clue", "danger", "phase"}
    /\ x.v.scene.t = "str" /\ x.v.scene.v # ""
    /\ x.v.options.t = "list" /\ Len(x.v.options.v) = 3
    /\ x.v.clue = JNull
    /\ x.v.danger = JStr("medio")
    /\ x.v.phase = JStr(INVESTIGATION_PHASES(scn)[1])

\* C13: for every reply text that is no JSON document, fenced or not,
\* _clean_json_response returns the fallback turn of its scenario
C13_FallbackOnUnparseable ==
    (game_response.done /\ ~Parseable(response_text))
        => IsFallbackTurn(game_response.value, game)

\* C13's case: the game master of mar was given a fenced text that is no JSON
C13_Witness ==
    /\ game_response.done
    /\ game = "mar"
    /\ response_text = <<FENCE, JSON_TAG, "Desculpe", FENCE>>
    /\ IsFallbackTurn(game_response.value, "mar")

(***************************************************************************)
(* Claims about the turns of a session                                     *)
(***************************************************************************)

\* the turn's upstream call returned a text, with a 2xx status
Replied == turn.action \in {"start", "continue"} /\ turn.reply.kind = "returned"

\* the JSON value of the reply text, for a text that is Parseable
ReplyValue(text) ==
    JsonDocs[CHOOSE d \in DOMAIN JsonDocs : Contains(text, d)]

\* the reply text is malformed: no JSON, or JSON that is no object
Malformed(text) == ~Parseable(text) \/ ReplyValue(text).t # "obj"

\* C14 as stated: a turn whose upstream reply is malformed, text that is no
\* JSON or JSON whose top-level value is no object, returns status success
C14_MalformedNeverFails ==
    (Replied /\ Malformed(turn.reply.value)) => turn.status = "success"

\* the turn was a continue turn whose reply parsed to a JSON object
ContinuedWithObject ==
    /\ turn.action = "continue"
    /\ turn.reply.kind = "returned"
    /\ Parseable(turn.reply.value)
    /\ ReplyValue(turn.reply.value).t = "obj"

\* C15 as stated: a continue turn whose reply has a phase field that is none
\* of the scenario's five phase keys, null included, leaves game_state's phase
\* as it was before the call
C15_UnknownPhaseHolds ==
    (/\ ContinuedWithObject
     /\ "phase" \in DOMAIN ReplyValue(turn.reply.value).v
     /\ ~is_phase_key(ReplyValue(turn.reply.value).v.phase, game))
        => game_state.phase = turn.before.phase

\* the value of key k of the reply, None when the reply has no such key or
\* is no JSON
ReplyField(text, k) ==
    IF Parseable(text) /\ ReplyValue(text).t = "obj"
          /\ k \in DOMAIN ReplyValue(text).v
    THEN ReplyValue(text).v[k] ELSE JNull

\* the value is absent, null or empty
Empty_(x) == x = JNull \/ x = JStr("")

\* the evidence list after a successful continue turn whose reply's clue is c
AppendsOnly(c) ==
    game_state.evidence_collected
        = IF Empty_(c) THEN turn.before.evidence_collected
                       ELSE Append(turn.before.evidence_collected, c)

\* no entry of the evidence list is null or empty
NoEmptyEvidence ==
    \A i \in 1..Len(game_state.evidence_collected) :
        ~Empty_(game_state.evidence_collected[i])

\* C16 as stated: a successful continue turn appends the value of the reply's
\* clue field as one new last entry when it is present and non-empty and
\* appends nothing when it is absent, null or empty, the earlier entries
\* unchanged; the evidence list never holds a null or empty entry
C16_ClueFieldOnly ==
    /\ (turn.action = "continue" /\ turn.status = "success")
          => AppendsOnly(ReplyField(turn.reply.value, "clue"))
    /\ NoEmptyEvidence

\* the clue as the game master reads it: the value of clue, and in floresta,
\* for a reply without the key clue, the value of evidence_discovered
ReplyClue(text, scn) ==
    IF scn = "floresta" /\ Parseable(text) /\ ReplyValue(text).t = "obj"
          /\ "clue" \notin DOMAIN ReplyValue(text).v
    THEN ReplyField(text, "evidence_discovered")
    ELSE ReplyField(text, "clue")

\* C16 amended: as C16, with the clue read under either of the keys the
\* scenario's game master reads
C16_EvidenceAppendOnly ==
    /\ (turn.action = "continue" /\ turn.status = "success")
          => AppendsOnly(ReplyClue(turn.reply.value, game))
    /\ NoEmptyEvidence

\* C16's case: a successful continue turn appended the clue of its reply after
\* the evidence of the start turn
C16_Witness ==
    /\ turn.action = "continue"
    /\ turn.status = "success"
    /\ turn.reply.value = <<"doc_clue">>
    /\ turn.before.evidence_collected # <<>>
    /\ game_state.evidence_collected
           = Append(turn.before.evidence_collected, JStr("boot print"))

\* C17 as stated: a continue turn that returns status error leaves the phase,
\* the evidence, the danger meter and the transcript of the passed-in
\* game_state as they were before the call
C17_FailedTurnAllOrNothing ==
    (turn.action = "continue" /\ turn.status = "error")
        => /\ game_state.phase = turn.before.phase
           /\ game_state.evidence_collected = turn.before.evidence_collected
           /\ game_state.danger_meter = turn.before.danger_meter
           /\ game_state.conversation_history = turn.before.conversation_history

\* a step of thread t that ends its request with a denial
DenialStep(t) ==
    /\ pc[t] \in {"check_cooldown", "check_rate_limit"}
    /\ pc'[t] = "respond"

\* every timestamp of every window after the step was in that window before it
NoTimestampAdded ==
    \A ip \in DOMAIN ip_requests' :
        /\ ip \in DOMAIN ip_requests \/ ip_requests'[ip] = <<>>
        /\ ip \in DOMAIN ip_requests =>
              /\ Len(ip_requests'[ip]) <= Len(ip_requests[ip])
              /\ \A i \in 1..Len(ip_requests'[ip]) :
                    \E j \in 1..Len(ip_requests[ip]) :
                        ip_requests[ip][j] = ip_requests'[ip][i]

\* C18: a denied inbound request changes nothing: the step that denies it
\* answers COOLDOWN_ACTIVE or RATE_LIMIT_EXCEEDED without passing through the
\* scenario handler, and it leaves the session, the upstream side (no call, no
\* HTTP request) and the cooldown record as they were and adds no timestamp to
\* a window, so the client's next admission is not postponed
C18_DeniedChangesNothing ==
    [][\A t \in Threads :
          DenialStep(t) =>
              /\ resp'[t].code \in Denials
              /\ UNCHANGED <<session_vars, upstream_vars>>
              /\ UNCHANGED <<last_request_time, admitted>>
              /\ NoTimestampAdded]_vars

\* a client with a session under way, whose turns called upstream, is denied
C18_Witness ==
    /\ JustDenied("t1")
    /\ game_state # NoGameState
    /\ calls > 0

\* the last admitted request of ip is less than cooldown_seconds old at n
InCooldown(ip, n) ==
    /\ admitted[ip] # <<>>
    /\ n - Last(admitted[ip]) < timedelta(cooldown_seconds)

\* thread t holds a request whose cooldown check ran at the current clock
\* reading and which is not registered yet
CooldownChecked(t) ==
    /\ pc[t] \in {"check_rate_limit", "register_request", "respond"}
    /\ resp[t].code # "HANDLED"
    /\ resp[t].at = now

\* C19: a request is denied with COOLDOWN_ACTIVE exactly when the last admitted
\* request of its ip is less than cooldown_seconds old; the cooldown is checked
\* first, so a request reaches the window check, and is denied with
\* RATE_LIMIT_EXCEEDED, only when the cooldown has passed
C19_CooldownFirst ==
    \A t \in Threads :
        CooldownChecked(t) =>
            /\ (pc[t] = "respond" /\ resp[t].code = "COOLDOWN_ACTIVE")
                   <=> InCooldown(req_ip[t], now)
            /\ resp[t].code = "RATE_LIMIT_EXCEEDED" => ~InCooldown(req_ip[t], now)

\* a request that fails both checks, denied with COOLDOWN_ACTIVE
C19_Witness ==
    \E t \in Threads :
        /\ JustDenied(t)
        /\ resp[t].code = "COOLDOWN_ACTIVE"
        /\ InCooldown(req_ip[t], now)
        /\ Len(in_window(admitted[req_ip[t]], now)) >= max_requests_per_minute

\* a request denied with RATE_LIMIT_EXCEEDED, its cooldown passed
C19_WindowDenial ==
    \E t \in Threads :
        /\ JustDenied(t)
        /\ resp[t].code = "RATE_LIMIT_EXCEEDED"

\* the time, in ticks, until the condition that denied the request of thread t
\* clears: cooldown - elapsed, or window - (now - oldest timestamp)
Remaining(t) ==
    LET ip == req_ip[t] IN
    IF resp[t].code = "COOLDOWN_ACTIVE"
    THEN timedelta(cooldown_seconds) - (now - Last(admitted[ip]))
    ELSE time_window - (now - Head(admitted[ip]))

\* C20 as stated: the retry_after of a denial equals the time remaining until
\* the denying condition clears
C20_RetryAfterIsRemaining ==
    \A t \in Threads :
        JustDenied(t) => timedelta(resp[t].retry_after) = Remaining(t)

\* C20, amended: the retry_after of a denial is a whole number of seconds, the
\* remaining time truncated to whole seconds plus one: it is greater than the
\* remaining time, by at most one second
C20_RetryAfterRoundedUp ==
    \A t \in Threads :
        JustDenied(t) =>
            /\ resp[t].retry_after \in Nat
            /\ Remaining(t) >= 0
            /\ Remaining(t) < timedelta(resp[t].retry_after)
            /\ timedelta(resp[t].retry_after) <= Remaining(t) + timedelta(1)

\* a denial whose remaining time is not a whole number of seconds
C20_Witness ==
    \E t \in Threads :
        /\ JustDenied(t)
        /\ Remaining(t) % TicksPerSecond # 0

(***************************************************************************)
(* Claims about the turns of the three scenarios, continued                *)
(***************************************************************************)

\* the attempt ended in 429 or in a timeout
Transient(o) == o = HttpError(429) \/ o = Timeout

\* C21 as stated: in every scenario a call whose attempt ended in 429 or in a
\* timeout goes on to another attempt while attempts remain: a finished call
\* whose last attempt was transient has made max_retries attempts
C21_RetryInEveryScenario ==
    (cpc = "done" /\ outcomes # <<>> /\ Transient(Last(outcomes)))
        => Len(outcomes) = max_retries

\* C22 as stated: the phase of a session built by one start and any continue
\* turns is one of the phase keys of the session's scenario
C22_PhaseIsScenarioKey ==
    game_state # NoGameState => is_phase_key(game_state.phase, game)

\* the danger label as the game master reads it: the value of danger, and in
\* floresta, for a reply without the key danger, the value of danger_level
ReplyDanger(text, scn) ==
    IF scn = "floresta" /\ Parseable(text) /\ ReplyValue(text).t = "obj"
          /\ "danger" \notin DOMAIN ReplyValue(text).v
    THEN ReplyField(text, "danger_level")
    ELSE ReplyField(text, "danger")

\* the fixed lookup of the danger labels: low 20, medium 40, high 70,
\* critical 95, and 40 for a missing or unknown label
DangerLookup(label, present) ==
    IF ~present THEN 40
    ELSE IF label = JStr("baixo") THEN 20
    ELSE IF label = JStr("medio") THEN 40
    ELSE IF label = JStr("alto") THEN 70
    ELSE IF label = JStr("critico") THEN 95
    ELSE 40

\* the reply has a danger label under a key the game master reads
HasDanger(text, scn) ==
    /\ Parseable(text)
    /\ ReplyValue(text).t = "obj"
    /\ \/ "danger" \in DOMAIN ReplyValue(text).v
       \/ scn = "floresta" /\ "danger_level" \in DOMAIN ReplyValue(text).v

\* the turn set the danger meter from the reply's label
DangerUpdated ==
    game_state.danger_meter
        = DangerLookup(ReplyDanger(turn.reply.value, game),
                       HasDanger(turn.reply.value, game))

\* the turn appended its prompt and the raw reply, in that order, to the
\* transcript and changed no earlier entry
TranscriptExtended ==
    LET old == turn.before.conversation_history
        new == game_state.conversation_history
    IN /\ Len(new) = Len(old) + 2
       /\ SubSeq(new, 1, Len(old)) = old
       /\ new[Len(old) + 1].role = "user"
       /\ new[Len(old) + 2] = Msg("assistant", turn.reply.value)

\* C23 as stated: a continue turn whose reply parses to an object without a
\* phase field leaves the phase as it was before the call, and sets the danger
\* meter, appends the evidence and extends the transcript as every turn does
C23_MissingPhaseHolds ==
    (ContinuedWithObject /\ "phase" \notin DOMAIN ReplyValue(turn.reply.value).v)
        => /\ game_state.phase = turn.before.phase
           /\ DangerUpdated
           /\ AppendsOnly(ReplyClue(turn.reply.value, game))
           /\ TranscriptExtended

\* C24 as stated: a successful start leaves a transcript of exactly two
\* entries, its prompt and the raw reply; a successful continue appends its
\* prompt and the raw reply and changes no earlier entry; a turn that fails
\* appends nothing; so the transcript's length is always even (and 2 + 2n
\* after n successful continues, by induction over the turns)
C24_TranscriptPairs ==
    /\ (turn.action = "start" /\ turn.status = "success")
          => game_state.conversation_history
                 = <<Msg("user", opening_prompt(game)),
                     Msg("assistant", turn.reply.value)>>
    /\ (turn.action = "continue" /\ turn.status = "success")
          => TranscriptExtended
    /\ (turn.action = "continue" /\ turn.status # "success")
          => game_state.conversation_history = turn.before.conversation_history
    /\ Len(game_state.conversation_history) % 2 = 0

\* the danger meter is an integer of 0..100
DangerInRange == game_state.danger_meter \in 0..100

\* C25 as stated: a successful continue turn sets the danger meter from the
\* value of the reply's danger field by the fixed lookup, to 40 when the field
\* is missing or its label unknown; the meter is always in 0..100
C25_DangerFieldLookup ==
    /\ (turn.action = "continue" /\ turn.status = "success")
          => game_state.danger_meter
                 = DangerLookup(ReplyField(turn.reply.value, "danger"),
                                /\ Parseable(turn.reply.value)
                                /\ ReplyValue(turn.reply.value).t = "obj"
                                /\ "danger" \in DOMAIN ReplyValue(turn.reply.value).v)
    /\ DangerInRange

\* C25 amended: as C25, with the label read under either of the keys the
\* scenario's game master reads
C25_DangerLookup ==
    /\ (turn.action = "continue" /\ turn.status = "success") => DangerUpdated
    /\ DangerInRange

\* C25's case: a successful continue turn whose reply carries an unknown
\* label set a meter that was not 40 to 40
C25_Witness ==
    /\ turn.action = "continue"
    /\ turn.status = "success"
    /\ turn.reply.value = <<"doc_unknown_danger">>
    /\ turn.before.danger_meter # 40
    /\ game_state.danger_meter = 40

(***************************************************************************)
(* Claims about the summary of the context manager                         *)
(***************************************************************************)

\* the part of the history before its last 2 * max_history messages
Older == SubSeq(history, 1, Len(history) - 2 * max_history)

\* the decision text of a prompt: what follows the marker up to the next line
\* break, without the spaces and the quotes around it
DecisionText(content) ==
    LET i == CHOOSE k \in 1..Len(content) :
                 content[k] = DecisionMarker
                     /\ \A j \in 1..(k - 1) : content[j] # DecisionMarker
        upto == IF \E k \in (i + 1)..Len(content) : content[k] = NL
                THEN (CHOOSE k \in (i + 1)..Len(content) :
                          content[k] = NL
                              /\ \A j \in (i + 1)..(k - 1) : content[j] # NL) - 1
                ELSE Len(content)
    IN strip(SubSeq(content, i + 1, upto), {SP, QUOTE})

\* the places of the user entries of h that hold the marker
Marked(h) ==
    {i \in 1..Len(h) : h[i].role = "user" /\ Contains(h[i].content, DecisionMarker)}

\* the last three of the places S, in transcript order
RECURSIVE InOrder(_)
InOrder(S) ==
    IF S = {} THEN <<>>
    ELSE LET m == CHOOSE x \in S : \A y \in S : x <= y IN <<m>> \o InOrder(S \ {m})

LastThree(S) == slice_last(InOrder(S), 3)

\* the summary text of the compressed history, after "RESUMO: "
SummaryText == Tail(compressed.value[1].content)

\* C26 as stated: the summary of a history longer than 2 * max_history is made
\* of the decision texts of the last three user entries of the old part that
\* hold the marker, in transcript order, joined by the arrow, after the label
\* of the scenario; with no such entry it is the placeholder alone; no entry
\* of the recent part contributes
C26_SummaryOfDecisions ==
    (compressed.done /\ Len(history) > 2 * max_history)
        => LET last3 == LastThree(Marked(Older)) IN
           IF last3 = <<>>
           THEN SummaryText \in {<<"Investigando">>, <<"Investigacao em andamento">>}
           ELSE /\ Head(SummaryText) \in {"Acoes: ", "Acoes anteriores: "}
                /\ Tail(SummaryText)
                       = join([k \in 1..Len(last3) |->
                                  DecisionText(Older[last3[k]].content)], " -> ")

(***************************************************************************)
(* Claims about the prompt of a continue turn                              *)
(***************************************************************************)

\* the continue turn reached its upstream call: it sent messages
SentMessages == turn.action = "continue" /\ turn.status \in {"success", "error"}

\* C27: the messages a continue turn sends upstream are the system prompt,
\* then the stored transcript as it is when it has at most 2 * max_history
\* entries and else one summary message and its last 2 * max_history entries,
\* then the prompt of this turn; so they are at most 2 * max_history + 3
C27_PromptBounded ==
    SentMessages =>
        LET m == turn.messages
            old == turn.before.conversation_history
            mid == SubSeq(m, 2, Len(m) - 1)
        IN /\ Len(m) >= 2
           /\ Len(m) <= 2 * max_history + 3
           /\ m[1] = SYSTEM_PROMPT(game)
           /\ m[Len(m)].role = "user"
           /\ Head(m[Len(m)].content) = "CONTINUAR"
           /\ turn.status = "success"
                 => m[Len(m)] = game_state.conversation_history[Len(old) + 1]
           /\ Len(old) <= 2 * max_history => mid = old
           /\ Len(old) > 2 * max_history
                 => /\ Len(mid) = 2 * max_history + 1
                    /\ mid[1].role = "user"
                    /\ Head(mid[1].content) \in {"RESUMO: ", "RESUMO ANTERIOR: "}
                    /\ Tail(mid) = SubSeq(old, Len(old) - 2 * max_history + 1,
                                          Len(old))

\* C27's case: a continue turn on a stored transcript of 12 entries sent 9
\* messages
C27_Witness ==
    /\ SentMessages
    /\ Len(turn.before.conversation_history) = 12
    /\ Len(turn.messages) = 2 * max_history + 3

(***************************************************************************)
(* Claims about the fields of a reply                                      *)
(***************************************************************************)

\* the value the narrative of the turn has for field k of the reply
NarrativeField(k) ==
    CASE k = "scene"   -> turn.narrative.panel_description
      [] k = "options" -> turn.narrative.inner_voice_options
      [] k = "clue"    -> turn.narrative.evidence_discovered
      [] OTHER         -> turn.narrative.danger_level

\* C28 as stated: a turn whose reply parses to an object succeeds, keeps every
\* one of the fields scene, options, clue and danger that the object has, and
\* gives every one it lacks the value the fallback turn of the scenario has
\* for it
C28_MissingFieldsFallBack ==
    (/\ Replied
     /\ Parseable(turn.reply.value)
     /\ ReplyValue(turn.reply.value).t = "obj")
        => /\ turn.status = "success"
           /\ \A k \in {"scene", "options", "clue", "danger"} :
                  NarrativeField(k)
                      = IF k \in DOMAIN ReplyValue(turn.reply.value).v
                        THEN ReplyValue(turn.reply.value).v[k]
                        ELSE fallback(game).v[k]

(***************************************************************************)
(* Claims about wait_if_needed and the attempts of _call_groq              *)
(***************************************************************************)

\* the step sends an HTTP request: it adds the outcome of one attempt
AttemptStep == outcomes' # <<>> /\ Len(outcomes') = Len(outcomes) + 1

\* the step is the end of a wait_if_needed call: of one that did not sleep,
\* or of one that slept
WaitReturns ==
    \/ waits' = waits + 1 /\ lim' = "idle"
    \/ lim = "woke" /\ lim' = "idle"

\* q is what is left of p when entries are taken from its front
IsSuffix(q, p) ==
    Len(q) <= Len(p) /\ q = SubSeq(p, Len(p) - Len(q) + 1, Len(p))

\* C29: every attempt of _call_groq, a retry too, is made after exactly one
\* wait_if_needed call that has returned, itself made after the sleep of the
\* attempt before; a wait_if_needed call that returns has added exactly one
\* timestamp, the clock's reading, to the window and no other step adds one;
\* so a call that ends has registered as many timestamps as it sent requests
C29_OneWaitPerAttempt ==
    [][/\ AttemptStep =>
              /\ lim = "idle"
              /\ waits = Len(outcomes) + 1
              /\ Len(sleeps) = Len(outcomes)
       /\ WaitReturns =>
              /\ requests' # <<>>
              /\ Last(requests') = now'
              /\ IsSuffix(SubSeq(requests', 1, Len(requests') - 1), requests)
       /\ ~WaitReturns => IsSuffix(requests', requests)
       /\ (cpc # "done" /\ cpc' = "done") => waits' = Len(outcomes')]_vars

\* C29's case: a call ended after three attempts, two of them retried, and
\* its last wait_if_needed had to sleep
C29_Witness ==
    /\ cpc = "done"
    /\ Len(outcomes) = max_retries
    /\ waits = max_retries
    /\ lim_sleeps > 0

\* the registered timestamps that are at most the window old at n
Current(n) == SelectSeq(requests, LAMBDA e : n - e <= mar_time_window)

\* the time, in ticks, until the oldest current timestamp is the window old
UntilOldestExpires == Head(Current(now)) + mar_time_window - now

\* the 0.5 s margin in ticks
HalfSecond == TicksPerSecond \div 2

\* C30: a wait_if_needed call that finds the window at capacity with its oldest
\* timestamp expiring in w > 0 suspends its caller for w plus 0.5 s without
\* registering, and what it registers after the sleep, once it has dropped the
\* expired timestamps again, is the reading of the clock then; a call that
\* finds the window below capacity registers the clock's reading at once
C30_WaitThenRegister ==
    [][/\ (calls' = calls + 1 /\ Len(Current(now)) >= mar_max_requests
              /\ UntilOldestExpires > 0)
          => /\ now' = now + UntilOldestExpires + HalfSecond
             /\ lim' = "woke"
             /\ requests' = Current(now)
       /\ (calls' = calls + 1 /\ Len(Current(now)) < mar_max_requests)
          => /\ now' = now
             /\ lim' = "idle"
             /\ requests' = Append(Current(now), now)
       /\ (lim = "woke" /\ lim' = "idle")
          => /\ now' = now
             /\ requests' = Append(Current(now), now)]_vars

\* C30's case: a caller that was suspended has registered the reading of the
\* clock after its sleep
C30_Witness ==
    /\ lim = "idle"
    /\ lim_sleeps > 0
    /\ requests # <<>>
    /\ Last(requests) = now

(***************************************************************************)
(* Claims about termination, the sweep and the independence of identities  *)
(***************************************************************************)

\* _call_groq once entered runs on: requests.post has timeout=30, every
\* time.sleep returns, and no statement of the loop waits for another thread
SpecCallFair ==
    /\ Init
    /\ [][NextCall]_vars
    /\ WF_vars(Attempt)
    /\ WF_vars(WaitWake)
    /\ WF_vars(\E o \in Outcomes : Post(o))

\* what _call_groq hands to the turn that called it
CallResult ==
    IF result.kind = "returned" THEN CallReturned(<<result.value>>) ELSE CallRaised

\* the results of the mar turns, a start and a continue, around this call
TurnResults ==
    {start_game("mar", CallResult),
     continue_game("mar", <<"follow">>, played("mar", 0), CallResult)}

\* the traffic of one call: requests, backoff sleeps, waits of the limiter and
\* the sleeps inside them, and the two ways the call and its turn can end
BoundedTraffic ==
    /\ Len(outcomes) <= max_retries
    /\ Len(sleeps) <= max_retries - 1
    /\ waits <= max_retries
    /\ lim_sleeps <= waits
    /\ cpc = "done" =>
           /\ result.kind \in {"returned", "raised"}
           /\ \A res \in TurnResults : res.status \in {"success", "error"}
           /\ result.kind = "raised" => \A res \in TurnResults : res.status = "error"

\* C31: whatever the upstream answers, a call of _call_groq sends at most
\* max_retries requests, sleeps at most max_retries - 1 times between them,
\* sleeps at most once in each wait_if_needed, and comes to its end, where the
\* turn has a success result or a status error result
C31_TurnTerminates ==
    /\ []BoundedTraffic
    /\ (cpc \in {"attempt", "post"}) ~> (cpc = "done")

C31_Witness ==
    /\ cpc = "done"
    /\ Len(outcomes) = max_retries
    /\ Len(sleeps) = max_retries - 1
    /\ lim_sleeps > 0
    /\ \E i \in 1..2 : outcomes[i] = Timeout
    /\ \E i \in 1..2 : outcomes[i] = HttpError(429)
    /\ result.kind = "returned"

\* thread t runs _cleanup in this step
SweepStep(t) == pc[t] = "cleanup" /\ pc'[t] = "handler"

\* thread t enters _cleanup in this step: it does so from register_request,
\* for a request that passed both checks and whose timestamp the step stores,
\* on finding the last sweep more than cleanup_interval_seconds old
SweepCalled(t) ==
    /\ pc[t] = "register_request"
    /\ resp[t].code = "NONE"
    /\ req_ip[t] \in DOMAIN ip_requests'
    /\ Last(ip_requests'[req_ip[t]]) = now
    /\ req_ip[t] \in DOMAIN last_request_time'
    /\ last_request_time'[req_ip[t]] = now
    /\ now - last_cleanup > timedelta(cleanup_interval_seconds)

\* the identities whose window is empty or whose newest timestamp is more than
\* the inactivity threshold old
Inactive(windows, n) ==
    {ip \in DOMAIN windows :
        \/ windows[ip] = <<>>
        \/ n - Last(windows[ip]) > timedelta(inactive_threshold_seconds)}

\* the step removes an identity or moves the time of the last sweep
SweepEffect ==
    \/ last_cleanup' # last_cleanup
    \/ ~((DOMAIN ip_requests) \subseteq DOMAIN ip_requests')
    \/ ~((DOMAIN last_request_time) \subseteq DOMAIN last_request_time')

\* C32: _cleanup runs only inside register_request of an admitted request and
\* only when more than cleanup_interval_seconds have passed since the sweep
\* before; after it no identity with an empty or inactive window is left, every
\* cooldown record left has a window, and the window and the cooldown record of
\* every other identity are as before
C32_Sweep ==
    [][/\ SweepEffect => \E t \in Threads : SweepStep(t)
       /\ \A t \in Threads :
            (pc'[t] = "cleanup" /\ pc[t] # "cleanup") => SweepCalled(t)
       /\ \A t \in Threads : SweepStep(t) =>
            /\ Inactive(ip_requests', now) = {}
            /\ (DOMAIN last_request_time') \subseteq DOMAIN ip_requests'
            /\ \A ip \in (DOMAIN ip_requests) \ Inactive(ip_requests, now) :
                 /\ ip \in DOMAIN ip_requests'
                 /\ ip_requests'[ip] = ip_requests[ip]
                 /\ ip \in DOMAIN last_request_time =>
                        /\ ip \in DOMAIN last_request_time'
                        /\ last_request_time'[ip] = last_request_time[ip]]_vars

\* register_request of a request of ip1 has stored its timestamp and has
\* called _cleanup, which finds ip2 inactive and ip1 active
C32_Witness ==
    /\ pc["t1"] = "cleanup"
    /\ req_ip["t1"] = "ip1"
    /\ Inactive(ip_requests, now) = {"ip2"}
    /\ "ip2" \in DOMAIN last_request_time
    /\ DOMAIN ip_requests = {"ip1", "ip2"}

\* the outcome the admitted requests h of one ip alone give a request of that
\* ip read at clock n: the cooldown from the newest, then the closed window
OwnOutcome(h, n) ==
    LET w == in_window(h, n) IN
    IF h # <<>> /\ n - Last(h) < timedelta(cooldown_seconds)
    THEN [code |-> "COOLDOWN_ACTIVE",
          retry_after |->
              int_seconds(timedelta(cooldown_seconds) - (n - Last(h))) + 1]
    ELSE IF Len(w) >= max_requests_per_minute
    THEN [code |-> "RATE_LIMIT_EXCEEDED",
          retry_after |-> int_seconds(Head(w) + time_window - n) + 1]
    ELSE [code |-> "NONE", retry_after |-> 0]

\* the outcome thread t has just given its request
Outcome(t) == [code |-> resp[t].code, retry_after |-> resp[t].retry_after]

\* C33: with requests served one at a time, the outcome of a request of an ip
\* (allowed or denied, the code and retry_after) is the one the times of that
\* ip's own admitted requests give, whatever other ips requested and whatever
\* the sweeps their requests ran removed
C33_IdentitiesIndependent ==
    \A t \in Threads :
        (JustDenied(t) \/ JustAllowed(t)) =>
            Outcome(t) = OwnOutcome(admitted[req_ip[t]], now)

\* ip1 is denied by its full window after a request of ip2 ran a sweep
\* between ip1's requests
C33_Witness ==
    \E t \in Threads :
        /\ JustDenied(t)
        /\ req_ip[t] = "ip1"
        /\ resp[t].code = "RATE_LIMIT_EXCEEDED"
        /\ "ip2" \in DOMAIN last_request_time
        /\ last_cleanup = last_request_time["ip2"]
        /\ last_cleanup > Head(admitted["ip1"])
        /\ last_cleanup < Last(admitted["ip1"])

(***************************************************************************)
(* Claims about the fallback turn, the decision marker and registration    *)
(***************************************************************************)

\* the turn was a continue turn that sent its messages upstream and whose
\* call returned a text that is no JSON
ContinuedUnparseable ==
    /\ turn.action = "continue"
    /\ turn.messages # <<>>
    /\ turn.reply.kind = "returned"
    /\ ~Parseable(turn.reply.value)

\* C34: a continue turn whose reply is no JSON succeeds with the fallback turn
\* and applies it as it applies any reply: in whatever phase the session was,
\* the phase becomes the first phase key of the scenario and the danger meter
\* 40, the evidence is as before, and the prompt and the raw reply are appended
\* to the transcript
C34_FallbackApplied ==
    ContinuedUnparseable =>
        /\ turn.status = "success"
        /\ turn.narrative.phase = JStr(INVESTIGATION_PHASES(game)[1])
        /\ turn.narrative.evidence_discovered = JNull
        /\ turn.narrative.danger_level = JStr("medio")
        /\ game_state.phase = JStr(INVESTIGATION_PHASES(game)[1])
        /\ game_state.danger_meter = 40
        /\ game_state.evidence_collected = turn.before.evidence_collected
        /\ TranscriptExtended

\* a mangue session in its last phase, at danger 95, is back in the first
\* phase at danger 40 after a reply that is no JSON
C34_Witness ==
    /\ ContinuedUnparseable
    /\ game = "mangue"
    /\ turn.before.phase = JStr(INVESTIGATION_PHASES("mangue")[5])
    /\ turn.before.danger_meter = 95
    /\ game_state.phase = JStr("chegada")
    /\ game_state.danger_meter = 40

\* the older part of the transcript the turn compressed, and the continue
\* prompts in it: the user messages after the opening prompt
OlderPart == slice_but_last(turn.before.conversation_history, max_history * 2)

OlderPrompts ==
    {i \in 2..Len(OlderPart) : OlderPart[i].role = "user"}

\* the player's decision stands in the prompt right after the marker the
\* compressor scans for
DecisionAfterMarker(content, decision) ==
    \E i \in 1..Len(content) :
        /\ content[i] = DecisionMarker
        /\ SubSeq(content, i + 1, i + 2 + Len(decision)) = <<SP, QUOTE>> \o decision

\* the placeholders _create_summary returns when it found no decision
Placeholders == {"Investigacao em andamento", "Investigando"}

\* C35 as stated: in every scenario the continue prompt the engine stores holds
\* the player's decision right after the marker, and the summary that a turn
\* makes of a transcript whose older part holds a continue prompt lists the
\* player's decisions and is not the placeholder
C35_DecisionsSummarised ==
    (turn.action = "continue" /\ turn.status = "success") =>
        /\ DecisionAfterMarker(
               game_state.conversation_history[
                   Len(game_state.conversation_history) - 1].content,
               <<"follow">>)
        /\ OlderPrompts # {} =>
               LET summary == turn.messages[2].content IN
               /\ Contains(summary, "follow")
               /\ \A p \in Placeholders : ~Contains(summary, p)

\* thread t is about to call the route of its request, or the route has
\* answered it, with whatever status
HandlerReached(t) ==
    \/ pc[t] = "handler"
    \/ pc[t] = "respond" /\ resp[t].code \notin Denials

\* C36: a request that passed both checks has its timestamp in the window and
\* in the cooldown record of its ip before the route is called, and still has
\* it when the route has answered, be it 200, a 400 for the body or a 500 for
\* a failed turn
C36_RegisteredBeforeHandler ==
    \A t \in Threads :
        HandlerReached(t) =>
            LET ip == req_ip[t] IN
            /\ ip \in DOMAIN ip_requests
            /\ ip_requests[ip] # <<>>
            /\ Last(ip_requests[ip]) >= resp[t].at
            /\ ip \in DOMAIN last_request_time
            /\ last_request_time[ip] = Last(ip_requests[ip])
            /\ admitted[ip] # <<>> => Last(admitted[ip]) = last_request_time[ip]

\* a request is denied with COOLDOWN_ACTIVE although no turn has run yet: the
\* cooldown was started by a request whose body was answered 400
C36_Witness ==
    \E t \in Threads :
        /\ JustDenied(t)
        /\ resp[t].code = "COOLDOWN_ACTIVE"
        /\ calls = 0
        /\ last_request_time[req_ip[t]] = Last(ip_requests[req_ip[t]])

\* the route has answered an admitted request with 500 and its timestamp stands
C36_FailedTurn ==
    \E t \in Threads :
        /\ pc[t] = "respond"
        /\ resp[t].status = 500
        /\ last_request_time[req_ip[t]] >= resp[t].at

\* thread t holds a window denial and thread u has just decided a request of
\* the same ip, read retry_after seconds after the denial, with no request of
\* that ip admitted in between
RetriedAfter(t, u) ==
    /\ t # u
    /\ pc[t] = "respond"
    /\ resp[t].code = "RATE_LIMIT_EXCEEDED"
    /\ req_ip[u] = req_ip[t]
    /\ JustDenied(u) \/ JustAllowed(u)
    /\ now = resp[t].at + timedelta(resp[t].retry_after)
    /\ \A i \in 1..Len(admitted[req_ip[t]]) : admitted[req_ip[t]][i] < resp[t].at

\* C37: a request made retry_after seconds after a RATE_LIMIT_EXCEEDED denial
\* of the same ip, with no request of that ip admitted in between, passes both
\* checks
C37_RetryAfterSufficient ==
    \A t, u \in Threads : RetriedAfter(t, u) => JustAllowed(u)

C37_Witness ==
    \E t, u \in Threads :
        /\ RetriedAfter(t, u)
        /\ JustAllowed(u)
        /\ resp[t].retry_after = 1

\* the window and the cooldown record of ip agree: a cooldown record comes
\* with a non-empty window whose newest timestamp it is, and the timestamps of
\* the window are in order and at least the cooldown apart
Consistent(ip) ==
    LET q == queue_of(ip) IN
    /\ ip \in DOMAIN last_request_time =>
           /\ ip \in DOMAIN ip_requests
           /\ q # <<>>
           /\ Last(q) = last_request_time[ip]
    /\ \A i \in 1..(Len(q) - 1) :
           /\ q[i] <= q[i + 1]
           /\ q[i + 1] - q[i] >= timedelta(cooldown_seconds)

\* an admit of a request of ip is under way between its window check and its
\* registration
MidAdmit(ip) ==
    \E t \in Threads : req_ip[t] = ip /\ pc[t] = "register_request"

\* C38: with requests served one at a time, between the admits of an ip its
\* window and cooldown record agree: every ip with a cooldown record has a
\* non-empty window whose newest timestamp is that record, and the timestamps
\* of every window are in non-decreasing order and at least cooldown_seconds
\* apart
C38_StateConsistent ==
    \A ip \in IPs : ~MidAdmit(ip) => Consistent(ip)

\* a full window of ip1, its timestamps the cooldown apart, and a record of ip2
C38_Witness ==
    /\ "ip1" \in DOMAIN last_request_time
    /\ Len(queue_of("ip1")) = max_requests_per_minute
    /\ \A i \in 1..(Len(queue_of("ip1")) - 1) :
           queue_of("ip1")[i + 1] - queue_of("ip1")[i] = timedelta(cooldown_seconds)
    /\ "ip2" \in DOMAIN last_request_time
    /\ \A t \in Threads : pc[t] = "idle"

(***************************************************************************)
(* Claims about the attempt counter of _call_groq                          *)
(***************************************************************************)

\* every attempt of the call so far ended in 429 or in a timeout
AllTransient == \A i \in 1..Len(outcomes) : Transient(outcomes[i])

\* the sleep the loop takes after attempt number k, counted from 1 over 429s
\* and timeouts alike
BackoffAfter(k) == IF outcomes[k] = HttpError(429) THEN 2 ^ k ELSE timeout_sleep

\* C39: 429s and timeouts are counted by one attempt counter: a call whose
\* attempts all ended in one or the other is over after exactly max_retries
\* attempts, with the error of the kind of its last attempt, and the sleep
\* after attempt k is 2^k seconds for a 429, earlier timeouts counted, and 2 s
\* for a timeout
C39_SharedAttemptCounter ==
    (scenario = "mar" /\ AllTransient) =>
        /\ Len(outcomes) <= max_retries
        /\ cpc = "done" <=> Len(outcomes) = max_retries
        /\ cpc = "done" =>
               result = [kind |-> "raised",
                         value |-> IF Last(outcomes) = HttpError(429)
                                   THEN "RateLimitExhausted" ELSE "Timeout"]
        /\ Len(sleeps) = IF cpc = "done" THEN max_retries - 1 ELSE Len(outcomes)
        /\ \A k \in 1..Len(sleeps) : sleeps[k] = BackoffAfter(k)

\* a timeout, a 429 and a timeout: the 429 of attempt 2 is followed by 4 s,
\* and the call ends with the timeout error
C39_Witness ==
    /\ cpc = "done"
    /\ outcomes = <<Timeout, HttpError(429), Timeout>>
    /\ sleeps = <<2, 4>>
    /\ result = [kind |-> "raised", value |-> "Timeout"]

\* a 429, a timeout and a 429: the call ends with the rate limit error
C39_FinalRateLimit ==
    /\ cpc = "done"
    /\ outcomes = <<HttpError(429), Timeout, HttpError(429)>>
    /\ sleeps = <<2, 2>>
    /\ result = [kind |-> "raised", value |-> "RateLimitExhausted"]

====
